---- MODULE Spec2Model ----
(***************************************************************************)
(* A model of the incremental synchronisation engine of the NBA game-log   *)
(* repository: the merge and the atomic write of game.csv                  *)
(* (src/src/nba_db/update.py), the daily update and its entry point        *)
(* (update.daily, run_daily_update.main), and the batched fetch of         *)
(* src/src/nba_db/extract.py.                                              *)
(*                                                                         *)
(* Calendar dates are day numbers 1..MaxDay; 0 stands for a missing or     *)
(* unparsable date (NaT).  Identifier strings are sequences of one-letter  *)
(* strings, so that stripping and zero-trimming are computed, not assumed. *)
(***************************************************************************)
EXTENDS Integers, Sequences, FiniteSets, TLC

VARIABLES
    w_file,     \* SpecWrite: game.csv, [exists, rows]
    w_last,     \* SpecWrite: the last _write_dataframe call and its outcome
    w_calls,    \* SpecWrite: number of calls made so far
    a_dir,      \* SpecAtomic: the target's directory, file name -> lines or Absent
    a_pc,       \* SpecAtomic: where _atomic_write_csv stands
    a_frame,    \* SpecAtomic: the rows being written
    a_old,      \* SpecAtomic: what the target held when the call began
    a_calls,    \* SpecAtomic: number of calls begun so far
    d_store,    \* SpecDaily: game.csv, [exists, rows]
    d_watermark, \* SpecDaily: the date in game_watermark.txt, NoDate when absent
    d_today,    \* SpecDaily: date.today()
    d_run,      \* SpecDaily: the run of main that has just ended, and its result
    d_prev,     \* SpecDaily: what the run before did
    d_runs,     \* SpecDaily: number of runs so far
    e_pc,       \* SpecExtract: where extract.get_league_game_log_from_date stands
    e_start,    \* SpecExtract: its start date
    e_final,    \* SpecExtract: the last date of its range
    e_next,     \* SpecExtract: the request being made, an index into its requests
    e_attempts, \* SpecExtract: failed attempts of that request
    e_delay,    \* SpecExtract: the delay before the next attempt, in seconds
    e_frames,   \* SpecExtract: the rows of the frames collected so far
    e_requests, \* SpecExtract: the requests made so far
    e_result,   \* SpecExtract: the frame returned
    e_sleeps,   \* SpecExtract: seconds slept after each request that returned
    r_pc,       \* SpecRetry: where update._call_with_retry stands
    r_description, \* SpecRetry: its description argument
    r_timeouts, \* SpecRetry: its timeout plan
    r_attempt,  \* SpecRetry: the attempt being made
    r_delay,    \* SpecRetry: the delay of the next sleep, in seconds
    r_sleeps,   \* SpecRetry: the arguments of the time.sleep calls made
    r_outcomes, \* SpecRetry: how each invocation of func ended
    r_timeouts_seen, \* SpecRetry: the timeout passed to each invocation
    r_error,    \* SpecRetry: the exception that left the call
    r_calls,    \* SpecRetry: number of calls begun so far
    h_pc,       \* SpecHttp: where the operation of extract.py stands
    h_op,       \* SpecHttp: the operation called
    h_requests, \* SpecHttp: number of HTTP requests it has issued
    h_last,     \* SpecHttp: the response to the last request
    h_retried,  \* SpecHttp: the responses after which the request was retried
    h_result,   \* SpecHttp: what the operation returned or raised
    h_calls,    \* SpecHttp: number of operations begun so far
    o_pc,       \* SpecOverrides: where fetch_home_away_overrides.main stands
    o_args,     \* SpecOverrides: its command line, [game_ids, dry_run, offline_only]
    o_bronze,   \* SpecOverrides: the ingested tables, [path, games]
    o_failing,  \* SpecOverrides: the games the external API fails to answer
    o_candidates, \* SpecOverrides: the game ids handed to _fetch_overrides
    o_status,   \* SpecOverrides: the state of each submitted future
    o_collected, \* SpecOverrides: the futures whose result the caller has taken
    o_overrides, \* SpecOverrides: the overrides list of _fetch_overrides
    o_failures, \* SpecOverrides: the failures list of _fetch_overrides
    o_requested, \* SpecOverrides: the games requested over the network
    o_table,    \* SpecOverrides: the rows of silver.home_away_overrides
    o_writes,   \* SpecOverrides: the upserts executed, with the futures unfinished then
    o_exit,     \* SpecOverrides: the exit status of the script
    o_stage,    \* SpecOverrides: the stage run_pipeline is at
    q_rows,     \* SpecQuality: the rows of silver.team_game_cov
    q_pc,       \* SpecQuality: whether check_quality.main has run on them
    q_failures, \* SpecQuality: the checks that failed on modern rows
    q_warnings, \* SpecQuality: the checks that flagged legacy rows
    q_exit,     \* SpecQuality: the exit status of check_quality.main
    s_files,    \* SpecSync: the dates whose <date>_leaguegamelog.csv exists
    s_disk,     \* SpecSync: last_updated of manifest.json on disk, NoDate if none
    s_manifest, \* SpecSync: last_updated of the manifest update_raw_data holds
    s_pc,       \* SpecSync: where update_raw_data stands
    s_args,     \* SpecSync: the arguments of the call
    s_start,    \* SpecSync: the first date of the run
    s_stop,     \* SpecSync: the last date of the run
    s_target,   \* SpecSync: the date the loop is at
    s_skipped,  \* SpecSync: the dates or seasons the run has skipped
    s_processed, \* SpecSync: the dates or seasons the loop has reached, in order
    s_empty,    \* SpecSync: the dates and seasons a fetch has returned no row for
    s_before,   \* SpecSync: last_updated of manifest.json when the call began
    s_clean,    \* SpecSync: no call so far has raised or been stopped
    s_calls,    \* SpecSync: number of calls made so far
    m_table,    \* SpecStore: the rows of silver.home_away_overrides
    m_last,     \* SpecStore: the last _store_overrides call: table before, rows, dry_run
    m_calls     \* SpecStore: number of _store_overrides calls made so far

writeVars == <<w_file, w_last, w_calls>>
atomicVars == <<a_dir, a_pc, a_frame, a_old, a_calls>>

dailyVars == <<d_store, d_watermark, d_today, d_run, d_prev, d_runs>>

extractVars ==
    <<e_pc, e_start, e_final, e_next, e_attempts, e_delay, e_frames, e_requests, e_result,
      e_sleeps>>

retryVars ==
    <<r_pc, r_description, r_timeouts, r_attempt, r_delay, r_sleeps, r_outcomes,
      r_timeouts_seen, r_error, r_calls>>

httpVars == <<h_pc, h_op, h_requests, h_last, h_retried, h_result, h_calls>>

overridesVars == <<o_pc, o_args, o_bronze, o_failing, o_candidates, o_status, o_collected, o_overrides, o_failures, o_requested, o_table, o_writes, o_exit, o_stage>>

qualityVars == <<q_rows, q_pc, q_failures, q_warnings, q_exit>>

syncVars == <<s_files, s_disk, s_manifest, s_pc, s_args, s_start, s_stop, s_target, s_skipped,
          s_processed, s_empty, s_before, s_clean, s_calls>>

storeVars == <<m_table, m_last, m_calls>>

vars == <<w_file, w_last, w_calls, a_dir, a_pc, a_frame, a_old, a_calls,
          d_store, d_watermark, d_today, d_run, d_prev, d_runs,
          e_pc, e_start, e_final, e_next, e_attempts, e_delay, e_frames,
          e_requests, e_result, e_sleeps,
          r_pc, r_description, r_timeouts, r_attempt, r_delay, r_sleeps,
          r_outcomes, r_timeouts_seen, r_error, r_calls,
          h_pc, h_op, h_requests, h_last, h_retried, h_result, h_calls,
          o_pc, o_args, o_bronze, o_failing, o_candidates, o_status, o_collected, o_overrides, o_failures, o_requested, o_table, o_writes, o_exit, o_stage,
          q_rows, q_pc, q_failures, q_warnings, q_exit,
          s_files, s_disk, s_manifest, s_pc, s_args, s_start, s_stop, s_target, s_skipped,
          s_processed, s_empty, s_before, s_clean, s_calls,
          m_table, m_last, m_calls>>

\* what the actions of one component leave alone
notWriteVars == <<atomicVars, dailyVars, extractVars, retryVars, httpVars, overridesVars, qualityVars, syncVars, storeVars>>
notAtomicVars == <<writeVars, dailyVars, extractVars, retryVars, httpVars, overridesVars, qualityVars, syncVars, storeVars>>
notDailyVars == <<writeVars, atomicVars, extractVars, retryVars, httpVars, overridesVars, qualityVars, syncVars, storeVars>>
notExtractVars == <<writeVars, atomicVars, dailyVars, retryVars, httpVars, overridesVars, qualityVars, syncVars, storeVars>>
notRetryVars == <<writeVars, atomicVars, dailyVars, extractVars, httpVars, overridesVars, qualityVars, syncVars, storeVars>>
notHttpVars == <<writeVars, atomicVars, dailyVars, extractVars, retryVars, overridesVars, qualityVars, syncVars, storeVars>>
notOverridesVars == <<writeVars, atomicVars, dailyVars, extractVars, retryVars, httpVars, qualityVars, syncVars, storeVars>>
notQualityVars == <<writeVars, atomicVars, dailyVars, extractVars, retryVars, httpVars, overridesVars, syncVars, storeVars>>
notSyncVars == <<writeVars, atomicVars, dailyVars, extractVars, retryVars, httpVars, overridesVars, qualityVars, storeVars>>
notStoreVars == <<writeVars, atomicVars, dailyVars, extractVars, retryVars, httpVars, overridesVars, qualityVars, syncVars>>

----------------------------------------------------------------------------
(* Bounds of the model.                                                    *)

MaxDay == 3        \* the calendar is 1..MaxDay
MaxBatch == 2      \* rows in one incoming batch
MaxWrites == 2     \* _write_dataframe calls in one behaviour of SpecWrite
MaxLines == 2      \* rows of a frame handed to _atomic_write_csv
MaxAtomicCalls == 2 \* _atomic_write_csv calls in one behaviour of SpecAtomic

None == "None"
NaT == 0
Days == 1..MaxDay

----------------------------------------------------------------------------
(* update.py: constants.                                                   *)

SEASON_TYPES == <<"Regular Season", "Playoffs", "Pre Season", "In Season Tournament">>
GAME_LOG_PRIMARY_KEY == <<"game_id", "team_id", "season_type">>
NUMERIC_KEY_COLUMNS == {"game_id", "team_id"}
DEFAULT_SEASON_TYPE == "Regular Season"

----------------------------------------------------------------------------
(* Strings of identifiers, and the key normalisation of update.py.         *)

RECURSIVE lstrip(_, _)
lstrip(s, ch) ==
    IF s # <<>> /\ Head(s) = ch THEN lstrip(Tail(s), ch) ELSE s

RECURSIVE rstrip(_, _)
rstrip(s, ch) ==
    IF s # <<>> /\ s[Len(s)] = ch THEN rstrip(SubSeq(s, 1, Len(s) - 1), ch) ELSE s

\* str.strip(): surrounding whitespace removed
strip(s) == rstrip(lstrip(s, " "), " ")

\* one key column of one row, as _normalise_key_columns rewrites it
normalise_key_without_lstrip(column, value) == strip(value)

normalise_key(column, value) ==
    LET stripped == strip(value) IN
    IF column \in NUMERIC_KEY_COLUMNS
    THEN LET trimmed == lstrip(stripped, "0") IN
         IF trimmed = <<>> THEN <<"0">> ELSE trimmed
    ELSE stripped

\* _normalise_key_columns applied to one row (all three key columns present)
normalise_key_columns(row) ==
    [row EXCEPT !.game_id = normalise_key("game_id", @),
                !.team_id = normalise_key("team_id", @)]

\* the composite key the duplicates are dropped on
KeyOf(row) == <<row.game_id, row.team_id, row.season_type>>

\* _standardise_game_log without a forced season type: a missing or empty
\* season_type becomes the default; game_date is already a date or NaT
standardise_row(row) ==
    [row EXCEPT !.season_type = IF @ = "" THEN DEFAULT_SEASON_TYPE ELSE @]

standardise_game_log(frame) == [i \in 1..Len(frame) |-> standardise_row(frame[i])]

\* pandas.read_csv infers an all-digit column as integers, so an identifier
\* read back from game.csv has lost its surrounding blanks and leading zeros
read_csv_id(value) ==
    LET trimmed == lstrip(strip(value), "0") IN
    IF trimmed = <<>> THEN <<"0">> ELSE trimmed

read_csv_row(row) ==
    [row EXCEPT !.game_id = read_csv_id(@), !.team_id = read_csv_id(@)]

\* _read_game_log: the rows of game.csv under the canonical schema
read_game_log(file) ==
    IF ~file.exists THEN <<>>
    ELSE standardise_game_log([i \in 1..Len(file.rows) |-> read_csv_row(file.rows[i])])

\* DataFrame.drop_duplicates(subset = key, keep = "first")
RECURSIVE drop_duplicates_first(_)
drop_duplicates_first(s) ==
    IF s = <<>> THEN <<>>
    ELSE LET init == drop_duplicates_first(SubSeq(s, 1, Len(s) - 1))
             row == s[Len(s)]
         IN IF \E i \in 1..Len(init) : KeyOf(init[i]) = KeyOf(row)
            THEN init ELSE Append(init, row)

\* DataFrame.drop_duplicates(subset = key, keep = "last")
RECURSIVE drop_duplicates_last(_)
drop_duplicates_last(s) ==
    IF s = <<>> THEN <<>>
    ELSE LET rest == drop_duplicates_last(Tail(s))
         IN IF \E i \in 1..Len(rest) : KeyOf(rest[i]) = KeyOf(Head(s))
            THEN rest ELSE <<Head(s)>> \o rest

\* _deduplicate_game_log: the fetched frames are deduplicated on the raw key
deduplicate_game_log(frame) == drop_duplicates_last(frame)

----------------------------------------------------------------------------
(* update.py: _write_dataframe with deduplicate_subset = GAME_LOG_PRIMARY_KEY *)

\* the duplicate removal of the merge (update.py line 366)
merge_drop_duplicates_keep_last(combined) == drop_duplicates_last(combined)

merge_drop_duplicates_forgotten(combined) == combined

merge_drop_duplicates(combined) == drop_duplicates_first(combined)

\* the rows _write_dataframe reads as "existing"
existing_rows_always_read(file, append) == read_game_log(file)

existing_rows(file, append) == IF append THEN read_game_log(file) ELSE <<>>

\* the file and the WriteOutcome after _write_dataframe(path, frame, append)
write_dataframe(file, frame, append) ==
    LET existing == existing_rows(file, append)
        frame_to_write == standardise_game_log(frame)
        existing_count == Len(existing)
        combined == IF append /\ existing # <<>>
                    THEN existing \o frame_to_write ELSE frame_to_write
        normalised == [i \in 1..Len(combined) |-> normalise_key_columns(combined[i])]
        deduped == merge_drop_duplicates(normalised)
    IN  IF ~append /\ frame_to_write = <<>>
        THEN [file |-> file, appended_rows |-> 0, final_row_count |-> 0]
        ELSE IF append /\ frame_to_write = <<>>
        THEN [file |-> file, appended_rows |-> 0, final_row_count |-> existing_count]
        ELSE [file |-> [exists |-> TRUE, rows |-> deduped],
              appended_rows |-> Len(deduped) - existing_count,
              final_row_count |-> Len(deduped)]

----------------------------------------------------------------------------
(* SpecWrite: a sequence of _write_dataframe calls on game.csv.            *)

\* identifiers as the upstream API and the bootstrap spell them
RawGameIds == {<<"1">>, <<"0", "1">>}
RawTeamIds == {<<"7">>}
WriteSeasonTypes == {"Regular Season", "Playoffs", ""}
WriteDates == {1, 2}

WriteRows ==
    [game_id : RawGameIds, team_id : RawTeamIds,
     season_type : WriteSeasonTypes, game_date : WriteDates]

SeqsUpTo(S, n) == UNION {[1..k -> S] : k \in 0..n}

WriteBatches == SeqsUpTo(WriteRows, MaxBatch)

NoFile == [exists |-> FALSE, rows |-> <<>>]

InitAtomic ==
    /\ a_dir = [n \in {[dir |-> "data/raw", name |-> "game.csv", temp |-> 0]} |-> [exists |-> FALSE, lines |-> <<>>]]
    /\ a_pc = "idle"
    /\ a_frame = <<>>
    /\ a_old = [exists |-> FALSE, lines |-> <<>>]
    /\ a_calls = 0

\* before any bootstrap: no game.csv, no watermark file
InitDaily ==
    /\ d_store = NoFile
    /\ d_watermark = 0
    /\ d_today = MaxDay
    /\ d_run = [called |-> FALSE]
    /\ d_prev = "fresh"
    /\ d_runs = 0

\* before extract.get_league_game_log_from_date is called
InitExtract ==
    /\ e_pc = "idle"
    /\ e_start = 0
    /\ e_final = 0
    /\ e_next = 0
    /\ e_attempts = 0
    /\ e_delay = 0
    /\ e_frames = <<>>
    /\ e_requests = <<>>
    /\ e_result = <<>>
    /\ e_sleeps = <<>>

InitRetry ==
    /\ r_pc = "idle"
    /\ r_description = ""
    /\ r_timeouts = <<>>
    /\ r_attempt = 0
    /\ r_delay = 0
    /\ r_sleeps = <<>>
    /\ r_outcomes = <<>>
    /\ r_timeouts_seen = <<>>
    /\ r_error = <<>>
    /\ r_calls = 0

InitHttp ==
    /\ h_pc = "idle"
    /\ h_op = ""
    /\ h_requests = 0
    /\ h_last = 0
    /\ h_retried = {}
    /\ h_result = "none"
    /\ h_calls = 0

InitOverrides ==
    /\ o_pc = "idle"
    /\ o_args = [game_ids |-> <<>>, dry_run |-> FALSE, offline_only |-> FALSE]
    /\ o_bronze = [path |-> "C", games |-> {}]
    /\ o_failing = {}
    /\ o_candidates = <<>>
    /\ o_status = <<>>
    /\ o_collected = {}
    /\ o_overrides = <<>>
    /\ o_failures = <<>>
    /\ o_requested = {}
    /\ o_table = {}
    /\ o_writes = <<>>
    /\ o_exit = -1
    /\ o_stage = "fetch_home_away_overrides"

InitQuality ==
    /\ q_rows = {}
    /\ q_pc = "idle"
    /\ q_failures = <<>>
    /\ q_warnings = <<>>
    /\ q_exit = -1

InitSync ==
    /\ s_files = {}
    /\ s_disk = 0
    /\ s_manifest = 0
    /\ s_pc = "idle"
    /\ s_args = [start_date |-> 0, end_date |-> 0, force |-> FALSE,
                 fetch_all_history |-> FALSE]
    /\ s_start = 0
    /\ s_stop = 0
    /\ s_target = 0
    /\ s_skipped = <<>>
    /\ s_processed = <<>>
    /\ s_empty = {}
    /\ s_before = 0
    /\ s_clean = TRUE
    /\ s_calls = 0

InitStore ==
    /\ m_table = {}
    /\ m_last = [called |-> FALSE]
    /\ m_calls = 0

InitWrite ==
    /\ w_file = NoFile
    /\ w_last = [called |-> FALSE]
    /\ w_calls = 0
    /\ InitAtomic
    /\ InitDaily
    /\ InitExtract
    /\ InitRetry
    /\ InitHttp
    /\ InitOverrides
    /\ InitQuality
    /\ InitSync
    /\ InitStore

\* one call _write_dataframe(game.csv, frame, append = ..., deduplicate_subset = key)
WriteCall(frame, append) ==
    /\ ~w_last.called
    /\ w_calls < MaxWrites
    /\ LET out == write_dataframe(w_file, frame, append) IN
        /\ w_file' = out.file
        /\ w_last' = [called |-> TRUE, append |-> append, frame |-> frame,
                      before |-> w_file,
                      appended_rows |-> out.appended_rows,
                      final_row_count |-> out.final_row_count]
    /\ w_calls' = w_calls + 1
    /\ UNCHANGED notWriteVars

\* the call returns to its caller
WriteReturn ==
    /\ w_last.called
    /\ w_last' = [called |-> FALSE]
    /\ UNCHANGED <<w_file, w_calls>>
    /\ UNCHANGED notWriteVars

NextWrite ==
    \/ \E frame \in WriteBatches, append \in BOOLEAN : WriteCall(frame, append)
    \/ WriteReturn

SpecWrite == InitWrite /\ [][NextWrite]_vars

----------------------------------------------------------------------------
(* SpecAtomic: _atomic_write_csv step by step, with a process kill and a   *)
(* failing write at any step.  A file is the sequence of its lines.        *)

Absent == [exists |-> FALSE, lines |-> <<>>]
FileOf(lines) == [exists |-> TRUE, lines |-> lines]
Target == [dir |-> "data/raw", name |-> "game.csv", temp |-> 0]
CsvHeader == "header"
AtomicRowValues == {"a", "b"}

\* DataFrame.to_csv(handle, index = False): the header line, then the rows
to_csv(frame) == <<CsvHeader>> \o frame

\* a mistaken writer that opens the target itself for writing
temp_path_is_target(path, n) == path

\* NamedTemporaryFile(dir = path.parent, prefix = "." + name + ".", suffix =
\* ".tmp", delete = False): a fresh name in the target's own directory
temp_path(path, n) == [dir |-> path.dir, name |-> path.name, temp |-> n]

TempOfCall == temp_path(Target, a_calls)

\* the directory with file `name` holding `content`
WithFile(dir, name, content) ==
    [n \in DOMAIN dir \cup {name} |-> IF n = name THEN content ELSE dir[n]]

\* os.replace(src, dst): dst atomically becomes src's file, src disappears
os_replace(dir, src, dst) ==
    IF src = dst THEN dir
    ELSE [n \in (DOMAIN dir \cup {dst}) \ {src} |-> IF n = dst THEN dir[src] ELSE dir[n]]

\* the call begins: the temporary file is created, empty, opened for writing
AtomicOpenTemp(frame) ==
    /\ a_pc = "idle"
    /\ a_calls < MaxAtomicCalls
    /\ a_calls' = a_calls + 1
    /\ a_frame' = frame
    /\ a_old' = a_dir[Target]
    /\ a_dir' = WithFile(a_dir, temp_path(Target, a_calls + 1), FileOf(<<>>))
    /\ a_pc' = "writing"

\* frame.to_csv(handle): one more line reaches the temporary file
AtomicWriteLine ==
    /\ a_pc = "writing"
    /\ Len(a_dir[TempOfCall].lines) < Len(to_csv(a_frame))
    /\ a_dir' = WithFile(a_dir, TempOfCall,
                         FileOf(Append(a_dir[TempOfCall].lines,
                                       to_csv(a_frame)[Len(a_dir[TempOfCall].lines) + 1])))
    /\ UNCHANGED <<a_pc, a_frame, a_old, a_calls>>

\* the with-block ends: the handle is closed, the file stays (delete = False)
AtomicCloseTemp ==
    /\ a_pc = "writing"
    /\ a_dir[TempOfCall].lines = to_csv(a_frame)
    /\ a_pc' = "closed"
    /\ UNCHANGED <<a_dir, a_frame, a_old, a_calls>>

\* os.replace(temp_path, path), and the call returns
AtomicReplace ==
    /\ a_pc = "closed"
    /\ a_dir' = os_replace(a_dir, TempOfCall, Target)
    /\ a_pc' = "idle"
    /\ UNCHANGED <<a_frame, a_old, a_calls>>

\* to_csv raises part-way: the with-block closes the handle and the
\* exception leaves _atomic_write_csv; nothing removes the temporary file
AtomicWriteError ==
    /\ a_pc = "writing"
    /\ a_pc' = "raised"
    /\ UNCHANGED <<a_dir, a_frame, a_old, a_calls>>

\* the process is killed at any step of the call
AtomicKill ==
    /\ a_pc \in {"writing", "closed"}
    /\ a_pc' = "killed"
    /\ UNCHANGED <<a_dir, a_frame, a_old, a_calls>>

\* a later process (or the caller, after the exception) is ready to write again
AtomicRestart ==
    /\ a_pc \in {"raised", "killed"}
    /\ a_pc' = "idle"
    /\ UNCHANGED <<a_dir, a_frame, a_old, a_calls>>

NextAtomic ==
    /\ \/ \E frame \in SeqsUpTo(AtomicRowValues, MaxLines) : AtomicOpenTemp(frame)
       \/ AtomicWriteLine
       \/ AtomicCloseTemp
       \/ AtomicReplace
       \/ AtomicWriteError
       \/ AtomicKill
       \/ AtomicRestart
    /\ UNCHANGED notAtomicVars

SpecAtomic == InitWrite /\ [][NextAtomic]_vars

\* C4: at every step of _atomic_write_csv, a kill or a failing write included,
\* the target path holds either the complete file it held when the call began
\* or the complete new file, never a part of one; and the rows are written to
\* a temporary file in the target's own directory.
C4_TargetNeverPartial ==
    /\ a_dir[Target] \in {a_old, FileOf(to_csv(a_frame))}
    /\ a_pc \in {"writing", "closed"} =>
          /\ TempOfCall # Target
          /\ TempOfCall.dir = Target.dir
          /\ TempOfCall \in DOMAIN a_dir
    /\ (a_pc = "idle" /\ a_calls > 0 /\ TempOfCall \notin DOMAIN a_dir) =>
          a_dir[Target] = FileOf(to_csv(a_frame))

\* C4 witness: the process was killed while the temporary file held only a
\* part of the new file, and the target still holds the previous, different one.
C4_Witness ==
    /\ a_pc = "killed"
    /\ a_old # Absent
    /\ a_old # FileOf(to_csv(a_frame))
    /\ a_dir[TempOfCall].lines # <<>>
    /\ Len(a_dir[TempOfCall].lines) < Len(to_csv(a_frame))
    /\ a_dir[Target] = a_old

\* the temporary files of the target's directory
TempFiles == {n \in DOMAIN a_dir : n # Target}

\* C19: after a write that failed inside _atomic_write_csv no temporary file
\* remains in the target's directory and the target still holds its previous
\* content.
C19_FailedWriteLeavesNoTempFile ==
    a_pc = "raised" => (TempFiles = {} /\ a_dir[Target] = a_old)

----------------------------------------------------------------------------
(* What the properties mean by "the same key": the game and the team an    *)
(* identifier denotes and the season type, whatever the spelling.          *)

DigitChars == <<"0", "1", "2", "3", "4", "5", "6", "7", "8", "9">>

DigitOf(c) == (CHOOSE i \in 1..Len(DigitChars) : DigitChars[i] = c) - 1

RECURSIVE DigitsValue(_)
DigitsValue(s) ==
    IF s = <<>> THEN 0
    ELSE 10 * DigitsValue(SubSeq(s, 1, Len(s) - 1)) + DigitOf(s[Len(s)])

IdValue(s) == DigitsValue(SelectSeq(s, LAMBDA c : c # " "))

EntityKey(row) ==
    <<IdValue(row.game_id), IdValue(row.team_id),
      IF row.season_type = "" THEN "Regular Season" ELSE row.season_type>>

EntityKeys(rows) == {EntityKey(rows[i]) : i \in 1..Len(rows)}

OneRowPerKey(rows) ==
    \A i, j \in 1..Len(rows) : EntityKey(rows[i]) = EntityKey(rows[j]) => i = j

\* the rows of s that carry key k
RowsOfKey(s, k) == {s[i] : i \in {j \in 1..Len(s) : EntityKey(s[j]) = k}}

\* a row as game.csv spells it: identifiers normalised, season type filled in
Stored(row) == normalise_key_columns(standardise_row(row))

----------------------------------------------------------------------------
(* Claims about the merge of _write_dataframe, checked under SpecWrite.    *)

\* C1 (as claimed): after an append-mode merge, every key that occurs both in
\* the previously stored rows and in the incoming batch carries, in game.csv,
\* a row of the incoming batch (the newer one), not the stored one.
C1_IncomingRowWins ==
    (w_last.called /\ w_last.append) =>
        \A k \in EntityKeys(w_last.before.rows) \cap EntityKeys(w_last.frame) :
            RowsOfKey(w_file.rows, k) \subseteq
                {Stored(r) : r \in RowsOfKey(w_last.frame, k)}

\* C6 (as claimed): after every call game.csv holds exactly one row per key of
\* the union of the previously stored rows and the incoming batch.
C6_OneRowPerKeyOfUnion ==
    w_last.called =>
        /\ OneRowPerKey(w_file.rows)
        /\ EntityKeys(w_file.rows) =
               EntityKeys(w_last.before.rows) \cup EntityKeys(w_last.frame)

\* C6 (amended): game.csv never holds a key twice; an append-mode call leaves
\* exactly the keys of the stored rows and the batch together, a replace-mode
\* call with a non-empty batch leaves exactly the keys of the batch (the
\* stored keys are dropped), and a replace-mode call with an empty batch
\* leaves the file as it was.
C6_OneRowPerKeyAppendOrReplace ==
    w_last.called =>
        /\ OneRowPerKey(w_file.rows)
        /\ w_last.append =>
               EntityKeys(w_file.rows) =
                   EntityKeys(w_last.before.rows) \cup EntityKeys(w_last.frame)
        /\ (~w_last.append /\ w_last.frame # <<>>) =>
               EntityKeys(w_file.rows) = EntityKeys(w_last.frame)
        /\ (~w_last.append /\ w_last.frame = <<>>) => w_file = w_last.before

\* C6 witness: an append-mode merge whose batch repeats a stored key under
\* another spelling and also brings a new key.
C6_Witness ==
    /\ w_last.called /\ w_last.append
    /\ \E i \in 1..Len(w_last.frame), j \in 1..Len(w_last.before.rows) :
          /\ EntityKey(w_last.frame[i]) = EntityKey(w_last.before.rows[j])
          /\ w_last.frame[i].game_id # w_last.before.rows[j].game_id
    /\ EntityKeys(w_last.frame) \ EntityKeys(w_last.before.rows) # {}
    /\ Len(w_file.rows) = 2

----------------------------------------------------------------------------
(* update.py: the requests of a daily run.  A date is a day number, a      *)
(* season is SeasonLen consecutive days, an absent Optional[date] is       *)
(* NoDate.                                                                 *)

NoDate == 0
SeasonLen == 2
MaxSlot == 2       \* the requests of one run that upstream answers with rows
MaxRuns == 2       \* runs of run_daily_update.main in one behaviour
MaxFetched == 1    \* rows upstream returns during one run
MaxSeed == 1       \* rows of the bootstrap league log

\* date(1946, 11, 1), where get_league_game_log_all starts
HISTORY_START == 1

MinOf(a, b) == IF a <= b THEN a ELSE b
MaxOf(a, b) == IF a >= b THEN a ELSE b

\* the season a day belongs to (start.year if start.month >= 7 else year - 1)
season_year(d) == (d - 1) \div SeasonLen
season_start(year) == year * SeasonLen + 1
season_end(year) == (year + 1) * SeasonLen

season_range(start, end) ==
    [i \in 1..(season_year(end) - season_year(start) + 1) |-> season_year(start) + i - 1]

\* the requests of _fetch_season_frame, one per season type, in order
fetch_season_requests(season, date_from, date_to) ==
    [i \in 1..Len(SEASON_TYPES) |->
        [season |-> season, season_type |-> SEASON_TYPES[i],
         date_from |-> date_from, date_to |-> date_to]]

RECURSIVE Flatten(_)
Flatten(ss) == IF ss = <<>> THEN <<>> ELSE Head(ss) \o Flatten(Tail(ss))

\* end_date = end_date or date.today()
from_date_end(end_date, today) == IF end_date = NoDate THEN today ELSE end_date

\* the requests of get_league_game_log_from_date(start_date, end_date)
from_date_requests(start_date, end_date, today) ==
    LET end == from_date_end(end_date, today)
        seasons == season_range(start_date, end)
    IN  Flatten([i \in 1..Len(seasons) |->
            fetch_season_requests(seasons[i],
                                  MaxOf(start_date, season_start(seasons[i])),
                                  MinOf(end, season_end(seasons[i])))])

\* the requests of get_league_game_log_all(): every season, no date filter
all_history_requests(today) ==
    LET seasons == season_range(HISTORY_START, today)
    IN  Flatten([i \in 1..Len(seasons) |->
            fetch_season_requests(seasons[i], NoDate, NoDate)])

\* What upstream does during one run: the rows it answers the k-th request
\* with (slot = k), and the request whose every attempt raises (fail_at, 0
\* for none).
UpstreamRows ==
    [slot : 1..MaxSlot, game_id : RawGameIds, team_id : RawTeamIds,
     game_date : 0..MaxDay]

Upstreams ==
    [rows : {s \in SeqsUpTo(UpstreamRows, MaxFetched) :
                \A i, j \in 1..Len(s) : i < j => s[i].slot <= s[j].slot},
     fail_at : 0..MaxSlot]

\* the frame LeagueGameLog(...).get_data_frames()[0] of the k-th request,
\* stamped with the requested season type by _standardise_game_log
response_frame(requests, up, k) ==
    LET answered == SelectSeq(up.rows, LAMBDA r : r.slot = k)
    IN  [i \in 1..Len(answered) |->
            [game_id |-> answered[i].game_id, team_id |-> answered[i].team_id,
             season_type |-> requests[k].season_type,
             game_date |-> answered[i].game_date]]

\* _call_with_retry: the frame, or RuntimeError once every attempt has raised
call_with_retry_returns_empty(requests, up, k) ==
    [raised |-> FALSE,
     frame |-> IF up.fail_at = k THEN <<>> ELSE response_frame(requests, up, k)]

call_with_retry(requests, up, k) ==
    IF up.fail_at = k THEN [raised |-> TRUE, frame |-> <<>>]
    ELSE [raised |-> FALSE, frame |-> response_frame(requests, up, k)]

\* get_league_game_log_from_date / get_league_game_log_all over their
\* requests: the requests made, the rows fetched by them, and the frame
\* returned or the error
fetch_game_log(requests, up) ==
    LET n == Len(requests)
        raising == {k \in 1..n : call_with_retry(requests, up, k).raised}
        first == CHOOSE k \in raising : \A m \in raising : k <= m
        frames == [k \in 1..n |-> standardise_game_log(call_with_retry(requests, up, k).frame)]
    IN  IF raising # {}
        THEN [raised |-> TRUE, requests |-> SubSeq(requests, 1, first),
              fetched |-> Flatten(SubSeq(frames, 1, first - 1)), frame |-> <<>>]
        ELSE [raised |-> FALSE, requests |-> requests, fetched |-> Flatten(frames),
              frame |-> deduplicate_game_log(standardise_game_log(Flatten(frames)))]

----------------------------------------------------------------------------
(* update.py: daily, and run_daily_update.py: main                         *)

max_game_date_of_last_row(rows) ==
    IF rows = <<>> THEN NaT ELSE rows[Len(rows)].game_date

\* dates.dropna().max() of a frame, NaT when no row has a date
max_game_date(rows) ==
    LET dates == {rows[i].game_date : i \in 1..Len(rows)} \ {NaT}
    IN  IF dates = {} THEN NaT ELSE CHOOSE d \in dates : \A e \in dates : e <= d

\* _next_start_date: the day after the last stored game date, or the error
next_start_date_guesses_history_start(file) ==
    LET last == max_game_date(read_game_log(file))
    IN  IF ~file.exists THEN [error |-> "FileNotFoundError", start |-> NoDate]
        ELSE IF last = NaT THEN [error |-> "", start |-> HISTORY_START]
        ELSE [error |-> "", start |-> last + 1]

next_start_date(file) ==
    LET frame == read_game_log(file)
        last == max_game_date(frame)
    IN  IF ~file.exists THEN [error |-> "FileNotFoundError", start |-> NoDate]
        ELSE IF frame = <<>> THEN [error |-> "ValueError", start |-> NoDate]
        ELSE IF last = NaT THEN [error |-> "ValueError", start |-> NoDate]
        ELSE [error |-> "", start |-> last + 1]

Plan(kind, error, requests, append, start, stop) ==
    [kind |-> kind, error |-> error, requests |-> requests, append |-> append,
     start |-> start, stop |-> stop]

daily_plan_fetches_empty_window(file, today, args) ==
    IF args.fetch_all_history
    THEN Plan("fetch", "", all_history_requests(today), FALSE, NoDate, NoDate)
    ELSE IF ~file.exists
    THEN Plan("raise", "FileNotFoundError", <<>>, TRUE, NoDate, NoDate)
    ELSE LET inferred == IF args.start_date # NoDate
                         THEN [error |-> "", start |-> args.start_date]
                         ELSE next_start_date(file)
             start == inferred.start
             stop == IF args.end_date = NoDate THEN NoDate
                     ELSE MinOf(args.end_date, today - 1)
         IN  IF inferred.error # ""
             THEN Plan("raise", inferred.error, <<>>, TRUE, NoDate, NoDate)
             ELSE IF start >= today
             THEN Plan("return", "", <<>>, TRUE, start, args.end_date)
             ELSE Plan("fetch", "", from_date_requests(start, stop, today),
                       file.exists, start, stop)

daily_plan_infers_start_from_store(file, today, args) ==
    IF args.fetch_all_history
    THEN Plan("fetch", "", all_history_requests(today), FALSE, NoDate, NoDate)
    ELSE IF ~file.exists
    THEN Plan("raise", "FileNotFoundError", <<>>, TRUE, NoDate, NoDate)
    ELSE LET inferred == next_start_date(file)
             start == inferred.start
             stop == IF args.end_date = NoDate THEN NoDate
                     ELSE MinOf(args.end_date, today - 1)
         IN  IF inferred.error # ""
             THEN Plan("raise", inferred.error, <<>>, TRUE, NoDate, NoDate)
             ELSE IF start >= today
             THEN Plan("return", "", <<>>, TRUE, start, args.end_date)
             ELSE IF args.end_date # NoDate /\ stop < start
             THEN Plan("return", "", <<>>, TRUE, start, stop)
             ELSE Plan("fetch", "", from_date_requests(start, stop, today),
                       file.exists, start, stop)

\* daily up to its fetch (update.py lines 482-534): it raises, returns early,
\* or goes on to make the requests of its window
daily_plan(file, today, args) ==
    IF args.fetch_all_history
    THEN Plan("fetch", "", all_history_requests(today), FALSE, NoDate, NoDate)
    ELSE IF ~file.exists
    THEN Plan("raise", "FileNotFoundError", <<>>, TRUE, NoDate, NoDate)
    ELSE LET inferred == IF args.start_date # NoDate
                         THEN [error |-> "", start |-> args.start_date]
                         ELSE next_start_date(file)
             start == inferred.start
             stop == IF args.end_date = NoDate THEN NoDate
                     ELSE MinOf(args.end_date, today - 1)
         IN  IF inferred.error # ""
             THEN Plan("raise", inferred.error, <<>>, TRUE, NoDate, NoDate)
             ELSE IF start >= today
             THEN Plan("return", "", <<>>, TRUE, start, args.end_date)
             ELSE IF args.end_date # NoDate /\ stop < start
             THEN Plan("return", "", <<>>, TRUE, start, stop)
             ELSE Plan("fetch", "", from_date_requests(start, stop, today),
                       file.exists, start, stop)

Outcome(status, file, rows_written, appended, final_row_count) ==
    [status |-> status, file |-> file, rows_written |-> rows_written,
     appended |-> appended, final_row_count |-> final_row_count]

\* daily from its fetch on (update.py lines 486-504 and 534-574): game.csv
\* and the DailyUpdateResult, or the error that leaves daily
daily_finish(file, plan, got) ==
    IF plan.kind = "raise" THEN Outcome(plan.error, file, 0, FALSE, 0)
    ELSE IF plan.kind = "return"
    THEN Outcome("ok", file, 0, TRUE, Len(read_game_log(file)))
    ELSE IF got.raised THEN Outcome("RuntimeError", file, 0, FALSE, 0)
    ELSE IF ~plan.append
    THEN LET out == write_dataframe(file, got.frame, FALSE)
         IN  Outcome("ok", out.file, out.appended_rows, FALSE, out.final_row_count)
    ELSE LET frame == standardise_game_log(got.frame)
             out == write_dataframe(file, frame, plan.append)
         IN  IF frame = <<>>
             THEN Outcome("ok", file, 0, TRUE, Len(read_game_log(file)))
             ELSE Outcome("ok", out.file, out.appended_rows, plan.append,
                          out.final_row_count)

\* run_daily_update.main: the arguments it hands to update.daily
resolved_args(cli, watermark) ==
    IF ~cli.fetch_all_history /\ cli.start_date = NoDate /\ watermark # NoDate
    THEN [cli EXCEPT !.start_date = watermark + 1]
    ELSE cli

\* run_daily_update.main: its exit code; a ValueError is not caught
exit_code(status) ==
    IF status = "ok" THEN "0"
    ELSE IF status \in {"FileNotFoundError", "RuntimeError"} THEN "1"
    ELSE "traceback"

CliArgs ==
    [fetch_all_history : BOOLEAN, start_date : {NoDate} \cup Days,
     end_date : {NoDate} \cup Days]

----------------------------------------------------------------------------
(* SpecDaily: runs of run_daily_update.main over game.csv and the          *)
(* watermark file, after an optional bootstrap.                            *)

\* the arguments of a run; with --fetch-all-history the dates are ignored
RunArgs ==
    {a \in CliArgs : a.fetch_all_history => (a.start_date = NoDate /\ a.end_date = NoDate)}

NoUpstream == [rows |-> <<>>, fail_at |-> 0]

NotFetched == [raised |-> FALSE, requests |-> <<>>, fetched |-> <<>>, frame |-> <<>>]

\* identifiers in sort_values order
IdBefore(a, b) == IdValue(a) < IdValue(b) \/ (IdValue(a) = IdValue(b) /\ Len(a) >= Len(b))

\* the league logs run_init derives from the bootstrap table: every row has a
\* date, rows are sorted by date and game, and a game and team occur once
BootstrapFrames ==
    {f \in SeqsUpTo([game_id : RawGameIds, team_id : RawTeamIds,
                     season_type : {"Regular Season", "Playoffs"},
                     game_date : 1..(MaxDay - 1)], MaxSeed) :
        /\ f # <<>>
        /\ OneRowPerKey(f)
        /\ \A i, j \in 1..Len(f) : i < j =>
              \/ f[i].game_date < f[j].game_date
              \/ /\ f[i].game_date = f[j].game_date
                 /\ IdBefore(f[i].game_id, f[j].game_id)}

\* run_init.main: writes game.csv and the watermark (its greatest date)
Bootstrap(frame) ==
    /\ d_prev = "fresh" /\ ~d_run.called /\ d_runs = 0
    /\ d_store' = [exists |-> TRUE, rows |-> frame]
    /\ d_watermark' = max_game_date(frame)
    /\ d_prev' = "seeded"
    /\ UNCHANGED <<d_today, d_run, d_runs>>
    /\ UNCHANGED notDailyVars

\* a game.csv that holds a header and no row, placed before the first run
EmptyStore ==
    /\ d_prev = "fresh" /\ ~d_run.called /\ d_runs = 0
    /\ d_store' = [exists |-> TRUE, rows |-> <<>>]
    /\ d_prev' = "seeded"
    /\ UNCHANGED <<d_watermark, d_today, d_run, d_runs>>
    /\ UNCHANGED notDailyVars

\* failing: the request upstream fails for good, 0 for none; first: the rows
\* the first run reported as written when this is its re-run
RunRecord(cli, args, plan, failing, got, out, rerun, first) ==
    [called |-> TRUE, rerun |-> rerun, first |-> first, cli |-> cli, args |-> args,
     failing |-> failing, fetched |-> got.fetched,
     today |-> d_today, before |-> d_store, prev |-> d_prev,
     plan |-> plan, requests |-> got.requests, raised |-> got.raised,
     frame |-> got.frame, status |-> out.status,
     rows_written |-> out.rows_written, appended |-> out.appended,
     final_row_count |-> out.final_row_count, exit |-> exit_code(out.status)]

\* one run of main with arguments cli; upstream behaves as up
Run(cli) ==
    /\ ~d_run.called
    /\ d_runs < MaxRuns
    /\ LET args == resolved_args(cli, d_watermark)
           plan == daily_plan(d_store, d_today, args)
       IN  \E up \in IF plan.kind = "fetch" THEN Upstreams ELSE {NoUpstream} :
            LET got == IF plan.kind = "fetch"
                       THEN fetch_game_log(plan.requests, up) ELSE NotFetched
                out == daily_finish(d_store, plan, got)
                failing == IF up.fail_at \in 1..Len(plan.requests)
                           THEN up.fail_at ELSE 0
            IN  /\ d_store' = out.file
                /\ d_run' = RunRecord(cli, args, plan, failing, got, out, FALSE, 0)
    /\ d_runs' = d_runs + 1
    /\ UNCHANGED <<d_watermark, d_today, d_prev>>
    /\ UNCHANGED notDailyVars

\* the same run once more: same arguments, same window, and upstream answers
\* every request as it did the first time
Rerun ==
    /\ d_run.called /\ ~d_run.rerun
    /\ d_run.status = "ok"
    /\ LET args == resolved_args(d_run.cli, d_watermark)
           plan == daily_plan(d_store, d_today, args)
           got == [raised |-> d_run.raised, requests |-> d_run.requests,
                   fetched |-> d_run.fetched, frame |-> d_run.frame]
           out == daily_finish(d_store, plan, got)
       IN  /\ plan.kind = d_run.plan.kind
           /\ plan.requests = d_run.plan.requests
           /\ d_store' = out.file
           /\ d_run' = RunRecord(d_run.cli, args, plan, d_run.failing, got, out,
                                 TRUE, d_run.rows_written)
    /\ UNCHANGED <<d_watermark, d_today, d_prev, d_runs>>
    /\ UNCHANGED notDailyVars

\* main has returned; the next run starts from what this one left
RunReturn ==
    /\ d_run.called
    /\ d_run' = [called |-> FALSE]
    /\ d_prev' = IF d_run.status = "ok" /\ ~d_run.cli.fetch_all_history
                    /\ d_run.rows_written > 0
                 THEN "incremental" ELSE "other"
    /\ UNCHANGED <<d_store, d_watermark, d_today, d_runs>>
    /\ UNCHANGED notDailyVars

NextDaily ==
    \/ \E frame \in BootstrapFrames : Bootstrap(frame)
    \/ EmptyStore
    \/ \E cli \in RunArgs : Run(cli)
    \/ Rerun
    \/ RunReturn

SpecDaily == InitWrite /\ [][NextDaily]_vars

----------------------------------------------------------------------------
(* Claims about daily and main, checked under SpecDaily.                   *)

\* the greatest date a store holds, 0 when it holds none
StoredWatermark(file) ==
    LET dates == {file.rows[i].game_date : i \in 1..Len(file.rows)} \cap Days
    IN  IF dates = {} THEN 0 ELSE CHOOSE d \in dates : \A e \in dates : e <= d

\* the run just ended was a daily in incremental or explicit-window mode
Incremental == d_run.called /\ ~d_run.cli.fetch_all_history

\* C2 (as claimed): a successful run repeated with the same arguments, the
\* same window and the same upstream answers leaves game.csv exactly as it
\* was and reports rows_written = 0, whatever the mode.
C2_RerunWritesNothing ==
    (d_run.called /\ d_run.rerun /\ d_run.status = "ok") =>
        /\ d_store = d_run.before
        /\ d_run.rows_written = 0

\* C2 (amended): the repeated run leaves game.csv exactly as it was; in
\* incremental and explicit-window mode it reports rows_written = 0, and in
\* full-history mode it reports again the rows_written of the first run,
\* which is the final row count when upstream returned rows.
C2_RerunLeavesStore ==
    (d_run.called /\ d_run.rerun /\ d_run.status = "ok") =>
        /\ d_store = d_run.before
        /\ ~d_run.cli.fetch_all_history => d_run.rows_written = 0
        /\ d_run.cli.fetch_all_history =>
              /\ d_run.rows_written = d_run.first
              /\ d_run.frame # <<>> => d_run.rows_written = Len(d_store.rows)

\* C2 witness: the re-run of an incremental run that had written rows.
C2_Witness ==
    /\ Incremental /\ d_run.rerun /\ d_run.status = "ok"
    /\ d_run.first > 0
    /\ d_run.frame # <<>>
    /\ d_run.rows_written = 0

C5_NeverRequestsToday ==
    (Incremental /\ d_run.requests # <<>>) =>
        \A i \in 1..Len(d_run.requests) :
            d_run.requests[i].date_to <= d_run.today - 1

\* C7: a daily run in incremental mode without an explicit start, on a store
\* without any valid date (no game.csv, no row, or no row with a date), ends
\* with an error, has made no request and has left the store as it was.
C7_FailsFastWithoutSeed ==
    (Incremental /\ d_run.args.start_date = NoDate
        /\ StoredWatermark(d_run.before) = 0) =>
        /\ d_run.status \in {"FileNotFoundError", "ValueError"}
        /\ d_run.exit # "0"
        /\ d_run.requests = <<>>
        /\ d_store = d_run.before

\* C7 witness: game.csv exists, holds rows, and none of them has a date.
C7_Witness ==
    /\ Incremental /\ d_run.args.start_date = NoDate
    /\ d_run.before.exists /\ d_run.before.rows # <<>>
    /\ StoredWatermark(d_run.before) = 0
    /\ d_run.status = "ValueError"

\* C8: when upstream fails one of the requests of a run for good, the run
\* ends with that error (main exits non-zero) and game.csv is as before.
C8_FetchFailureLeavesStore ==
    (d_run.called /\ d_run.failing # 0) =>
        /\ d_run.status = "RuntimeError"
        /\ d_run.exit = "1"
        /\ d_store = d_run.before

\* C8 witness: the second request failed after the first had returned a row
\* that game.csv does not hold.
C8_Witness ==
    /\ d_run.called /\ d_run.failing = 2
    /\ d_run.fetched # <<>>
    /\ d_run.before.exists
    /\ EntityKeys(d_run.fetched) \cap EntityKeys(d_run.before.rows) = {}

\* C10 (as claimed): after a successful incremental run that wrote rows, the
\* next run without an explicit start date begins its window on the day after
\* the greatest date game.csv holds.
C10_NextWindowStartsAfterLastIngested ==
    (Incremental /\ ~d_run.rerun /\ d_run.prev = "incremental"
        /\ d_run.cli.start_date = NoDate /\ d_run.plan.kind # "raise"
        /\ StoredWatermark(d_run.before) # 0) =>
        d_run.plan.start = StoredWatermark(d_run.before) + 1

----------------------------------------------------------------------------
(* SpecExtract: extract.get_league_game_log_from_date, one attempt of one  *)
(* request at a time.  A month is DaysPerMonth days, a year twelve months,  *)
(* day 1 is the first of January of year 0.                                 *)

DaysPerMonth == 2
MaxExtractSpan == 2   \* days between the start and the end of a range
MaxExtractRows == 1   \* requests of one call that upstream answers with rows

\* extract.REQUEST_SLEEP_SECONDS
EXTRACT_REQUEST_SLEEP_SECONDS == 1
MAX_RETRIES == 5
EXTRACT_MAX_BACKOFF_SECONDS == 10
EXTRACT_FIRST_DELAY == 4

ExtractDays == 1..(12 * DaysPerMonth)

month_of(d) == (((d - 1) \div DaysPerMonth) % 12) + 1
year_of(d) == (d - 1) \div (12 * DaysPerMonth)

month_end_fixed_span(d) == d + 1

\* current + pd.offsets.MonthEnd(0): the last day of the month of d
month_end(d) == ((d - 1) \div DaysPerMonth + 1) * DaysPerMonth

season_year_for_date(d) == IF month_of(d) >= 7 THEN year_of(d) ELSE year_of(d) - 1

\* sorted(types) lists the season types in this order
SortedSeasonTypes ==
    <<"In-Season Tournament", "PlayIn", "Playoffs", "Pre Season", "Regular Season">>

season_types_for_window(start, end) ==
    LET types ==
            (IF (month_of(start) <= 10 /\ 10 <= month_of(end))
                   \/ month_of(start) = 9 \/ month_of(end) = 9
             THEN {"Pre Season"} ELSE {})
            \cup {"Regular Season"}
            \cup (IF month_of(end) >= 11 THEN {"In-Season Tournament"} ELSE {})
            \cup (IF month_of(end) >= 4 THEN {"PlayIn", "Playoffs"} ELSE {})
    IN  SelectSeq(SortedSeasonTypes, LAMBDA t : t \in types)

\* the month windows of the loop "while current <= final"
RECURSIVE extract_windows(_, _)
extract_windows(current, final) ==
    IF current > final THEN <<>>
    ELSE LET window_end == MinOf(month_end(current), final)
         IN  <<[date_from |-> current, date_to |-> window_end]>>
                 \o extract_windows(window_end + 1, final)

\* the requests the two loops make when none fails, in order
extract_requests(start, final) ==
    LET windows == extract_windows(start, final)
    IN  Flatten([i \in 1..Len(windows) |->
            LET types == season_types_for_window(windows[i].date_from, windows[i].date_to)
            IN  [j \in 1..Len(types) |->
                    [season |-> season_year_for_date(windows[i].date_from),
                     season_type |-> types[j],
                     date_from |-> windows[i].date_from,
                     date_to |-> windows[i].date_to]]])

\* the end of the function: rows outside the range go, then duplicate keys
extract_combine(frames, start, final) ==
    drop_duplicates_first(
        SelectSeq(frames, LAMBDA r : r.game_date >= start /\ r.game_date <= final))

ExtractPlan == extract_requests(e_start, e_final)

\* get_league_game_log_from_date(start, end) is called on day today
ExtractCall(start, end, today) ==
    /\ e_pc = "idle"
    /\ LET final == IF end = NoDate THEN today ELSE end
           plan == extract_requests(start, final)
       IN  /\ e_start' = start
           /\ e_final' = final
           /\ IF start > final
              THEN /\ e_pc' = "returned"
                   /\ UNCHANGED <<e_next, e_delay, e_requests>>
              ELSE /\ e_pc' = "request"
                   /\ e_next' = 1
                   /\ e_delay' = EXTRACT_FIRST_DELAY
                   /\ e_requests' = <<plan[1]>>
    /\ e_sleeps' = <<>>
    /\ UNCHANGED <<e_attempts, e_frames, e_result>>
    /\ UNCHANGED notExtractVars

\* the request at hand has returned a frame; the loops go on
ExtractAdvance(frames) ==
    /\ e_frames' = frames
    /\ e_sleeps' = Append(e_sleeps, IF frames = e_frames THEN 0
                                     ELSE EXTRACT_REQUEST_SLEEP_SECONDS)
    /\ e_attempts' = 0
    /\ IF e_next = Len(ExtractPlan)
       THEN /\ e_pc' = "returned"
            /\ e_result' = extract_combine(frames, e_start, e_final)
            /\ UNCHANGED <<e_next, e_delay, e_requests>>
       ELSE /\ e_next' = e_next + 1
            /\ e_delay' = EXTRACT_FIRST_DELAY
            /\ e_requests' = Append(e_requests, ExtractPlan[e_next + 1])
            /\ UNCHANGED <<e_pc, e_result>>
    /\ UNCHANGED <<e_start, e_final>>
    /\ UNCHANGED notExtractVars

\* an attempt returns a frame with a row, dated in the window or before it
AttemptRows ==
    /\ e_pc = "request"
    /\ Len(e_frames) < MaxExtractRows
    /\ \E game_date \in {ExtractPlan[e_next].date_from - 1, ExtractPlan[e_next].date_from} :
          ExtractAdvance(Append(e_frames,
              [game_id |-> <<"1">>, team_id |-> <<"7">>,
               season_type |-> ExtractPlan[e_next].season_type,
               game_date |-> game_date]))

\* an attempt returns an empty frame (no game, or HTTP 400)
AttemptEmpty ==
    /\ e_pc = "request"
    /\ ExtractAdvance(e_frames)

\* an attempt raises a RequestException: _call_with_retry sleeps and tries
\* again, or raises RuntimeError after MAX_RETRIES failures
AttemptError ==
    /\ e_pc = "request"
    /\ e_attempts' = e_attempts + 1
    /\ IF e_attempts + 1 >= MAX_RETRIES
       THEN e_pc' = "raised" /\ UNCHANGED e_delay
       ELSE e_delay' = MinOf(e_delay * 2, EXTRACT_MAX_BACKOFF_SECONDS) /\ UNCHANGED e_pc
    /\ UNCHANGED <<e_start, e_final, e_next, e_frames, e_requests, e_result, e_sleeps>>
    /\ UNCHANGED notExtractVars

NextExtract ==
    \/ \E start \in ExtractDays, span \in 0..MaxExtractSpan :
          \/ ExtractCall(start, start + span, start + span)
          \/ ExtractCall(start, NoDate, start + span)
          \/ ExtractCall(start + 1, start, start + 1)
    \/ AttemptRows
    \/ AttemptEmpty
    \/ AttemptError

SpecExtract == InitWrite /\ [][NextExtract]_vars

\* C9 (as claimed): when every attempt of one request has failed and
\* requests of other windows or season types remain, the call is not ended
\* by that error: it goes on to make them.
C9_ExhaustedRequestAbandonsOnlyItsWindow ==
    (e_attempts >= MAX_RETRIES /\ e_next < Len(ExtractPlan)) => e_pc # "raised"

(***************************************************************************)
(* update._call_with_retry, step by step: each invocation of func, each    *)
(* time.sleep, and the way the call ends.                                  *)
(***************************************************************************)
MaxRetryCalls == 2
MAX_REQUEST_RETRIES == 5
MAX_BACKOFF_SECONDS == 16
DEFAULT_TIMEOUT == 20
RETRY_FIRST_DELAY == 1

SLOW_ENDPOINT_TIMEOUTS ==
    <<DEFAULT_TIMEOUT, DEFAULT_TIMEOUT * 2, DEFAULT_TIMEOUT * 4,
      DEFAULT_TIMEOUT * 4, DEFAULT_TIMEOUT * 4>>

\* the descriptions and the timeouts arguments of the calls made by update.py
RetryDescriptions == {"player", "league game log"}
RetryTimeouts == {<<>>, SLOW_ENDPOINT_TIMEOUTS, <<DEFAULT_TIMEOUT, DEFAULT_TIMEOUT * 2>>}

\* timeouts None or empty: DEFAULT_TIMEOUT for every attempt
timeout_plan(timeouts) ==
    IF timeouts = <<>> THEN [i \in 1..MAX_REQUEST_RETRIES |-> DEFAULT_TIMEOUT]
    ELSE timeouts

\* timeout_plan[min(attempt - 1, len(timeout_plan) - 1)], indices from 1 here
timeout_value(plan, attempt) == plan[MinOf(attempt, Len(plan))]

\* a schedule that sleeps for the same time before every retry
next_delay_constant(delay) == delay

\* delay = min(delay * 2, MAX_BACKOFF_SECONDS)
next_delay(delay) == MinOf(delay * 2, MAX_BACKOFF_SECONDS)

\* RuntimeError(f"Failed to fetch {description}")
FailedToFetch(description) ==
    <<"RuntimeError", "Failed to fetch ", description>>

\* the call begins: delay = 1 and the first attempt is about to be made
RetryCall(description, timeouts) ==
    /\ r_pc = "idle"
    /\ r_calls < MaxRetryCalls
    /\ r_calls' = r_calls + 1
    /\ r_description' = description
    /\ r_timeouts' = timeout_plan(timeouts)
    /\ r_attempt' = 1
    /\ r_delay' = RETRY_FIRST_DELAY
    /\ r_sleeps' = <<>>
    /\ r_outcomes' = <<>>
    /\ r_timeouts_seen' = <<>>
    /\ r_error' = <<>>
    /\ r_pc' = "attempt"

\* func(timeout_value) returns a frame: _call_with_retry returns it
RetrySuccess ==
    /\ r_pc = "attempt"
    /\ r_outcomes' = Append(r_outcomes, "returned")
    /\ r_timeouts_seen' = Append(r_timeouts_seen, timeout_value(r_timeouts, r_attempt))
    /\ r_pc' = "returned"
    /\ UNCHANGED <<r_description, r_timeouts, r_attempt, r_delay, r_sleeps, r_error, r_calls>>

\* func raises a RequestException: the last attempt breaks out of the loop
\* and RuntimeError is raised, any other attempt sleeps and goes on
RetryRequestException ==
    /\ r_pc = "attempt"
    /\ r_outcomes' = Append(r_outcomes, "RequestException")
    /\ r_timeouts_seen' = Append(r_timeouts_seen, timeout_value(r_timeouts, r_attempt))
    /\ IF r_attempt = MAX_REQUEST_RETRIES
       THEN /\ r_pc' = "raised"
            /\ r_error' = FailedToFetch(r_description)
            /\ UNCHANGED <<r_attempt, r_delay, r_sleeps>>
       ELSE /\ r_sleeps' = Append(r_sleeps, r_delay)
            /\ r_delay' = next_delay(r_delay)
            /\ r_attempt' = r_attempt + 1
            /\ UNCHANGED <<r_pc, r_error>>
    /\ UNCHANGED <<r_description, r_timeouts, r_calls>>

\* func raises something that is not a RequestException: it is not caught
RetryOtherException ==
    /\ r_pc = "attempt"
    /\ r_outcomes' = Append(r_outcomes, "ValueError")
    /\ r_timeouts_seen' = Append(r_timeouts_seen, timeout_value(r_timeouts, r_attempt))
    /\ r_error' = <<"ValueError">>
    /\ r_pc' = "raised"
    /\ UNCHANGED <<r_description, r_timeouts, r_attempt, r_delay, r_sleeps, r_calls>>

\* the caller has the result, and may call again
RetryDone ==
    /\ r_pc \in {"returned", "raised"}
    /\ r_pc' = "idle"
    /\ UNCHANGED <<r_description, r_timeouts, r_attempt, r_delay, r_sleeps,
                   r_outcomes, r_timeouts_seen, r_error, r_calls>>

NextRetry ==
    /\ \/ \E description \in RetryDescriptions, timeouts \in RetryTimeouts :
             RetryCall(description, timeouts)
       \/ RetrySuccess
       \/ RetryRequestException
       \/ RetryOtherException
       \/ RetryDone
    /\ UNCHANGED notRetryVars

SpecRetry == InitWrite /\ [][NextRetry]_vars

RetrySchedule == <<1, 2, 4, 8>>

FailedAttempts == {i \in 1..Len(r_outcomes) : r_outcomes[i] = "RequestException"}

\* C16: _call_with_retry invokes func at most MAX_REQUEST_RETRIES times and
\* never again after a success, sleeps 1, 2, 4, 8 seconds between consecutive
\* failed attempts (never above MAX_BACKOFF_SECONDS) and not after the last
\* attempt, and when every attempt failed with a request exception raises
\* RuntimeError 'Failed to fetch <description>'.
C16_BoundedRetrySchedule ==
    /\ Len(r_outcomes) <= MAX_REQUEST_RETRIES
    /\ \A i \in 1..Len(r_outcomes) : r_outcomes[i] = "returned" => i = Len(r_outcomes)
    /\ r_sleeps = SubSeq(RetrySchedule, 1, Len(r_sleeps))
    /\ \A i \in 1..Len(r_sleeps) : r_sleeps[i] <= MAX_BACKOFF_SECONDS
    /\ Len(r_sleeps) = MinOf(Cardinality(FailedAttempts), MAX_REQUEST_RETRIES - 1)
    /\ (r_outcomes # <<>> /\ r_outcomes[Len(r_outcomes)] = "returned") =>
          (r_pc \in {"returned", "idle"} /\ r_error = <<>>)
    /\ Cardinality(FailedAttempts) = MAX_REQUEST_RETRIES =>
          (r_pc \in {"raised", "idle"} /\ r_error = <<"RuntimeError", "Failed to fetch ", r_description>>)
    /\ (r_error # <<>> /\ r_error[1] = "RuntimeError") =>
          Cardinality(FailedAttempts) = MAX_REQUEST_RETRIES

\* C16 witness: all five attempts failed, four sleeps were made, RuntimeError
C16_Witness ==
    /\ r_pc = "raised"
    /\ Len(r_outcomes) = MAX_REQUEST_RETRIES
    /\ r_sleeps = <<1, 2, 4, 8>>
    /\ r_error = <<"RuntimeError", "Failed to fetch ", "player">>


(***************************************************************************)
(* One operation of extract.py against the external API, seen through the  *)
(* HTTP responses it receives: the league-game-log path                    *)
(* (_call_with_retry around _fetch_leaguegamelog) and the detail path      *)
(* (get_box_score and get_play_by_play around _fetch_json).                *)
(***************************************************************************)
MaxHttpCalls == 2
DETAIL_STOP_AFTER_ATTEMPT == 3

\* a request that got no response: requests raises Timeout or ConnectionError
NoResponse == 0
HttpStatuses == {200, 400, 403, 404, 429, 500, 502, 503, 504}
HttpResponses == HttpStatuses \cup {NoResponse}
LeagueOps == {"_fetch_leaguegamelog"}
DetailOps == {"get_box_score", "get_play_by_play"}

\* a retry predicate that takes a 400 for a transient failure too
RETRYABLE_STATUS_CODES_WITH_400 == {400, 429, 500, 502, 503, 504}

RETRYABLE_STATUS_CODES == {429, 500, 502, 503, 504}

\* response.raise_for_status(): HTTPError for a 4xx or 5xx status
raises_http_error(response) == response # NoResponse /\ response >= 400

\* _retryable_http(exc): an HTTPError by its status, any other
\* RequestException always
retryable_http(response) ==
    IF raises_http_error(response) THEN response \in RETRYABLE_STATUS_CODES
    ELSE response = NoResponse

detail_stops_one_attempt_late(attempt_number) ==
    attempt_number >= DETAIL_STOP_AFTER_ATTEMPT + 1

\* stop_after_attempt(3) of the retry around _fetch_json
detail_stops(attempt_number) == attempt_number >= DETAIL_STOP_AFTER_ATTEMPT

\* an operation is called
HttpCall(op) ==
    /\ h_pc = "idle"
    /\ h_calls < MaxHttpCalls
    /\ h_calls' = h_calls + 1
    /\ h_op' = op
    /\ h_requests' = 0
    /\ h_last' = NoResponse
    /\ h_retried' = {}
    /\ h_result' = "none"
    /\ h_pc' = "request"

\* _call_with_retry(description, lambda: _fetch_leaguegamelog(...)): one
\* request and its response.  A 400 becomes an empty frame inside
\* _fetch_leaguegamelog; every other failure reaches _call_with_retry as a
\* RequestException and is retried until MAX_RETRIES attempts have failed.
LeagueResponse(response, rows) ==
    /\ h_pc = "request"
    /\ h_op \in LeagueOps
    /\ h_requests' = h_requests + 1
    /\ h_last' = response
    /\ IF response = 200
       THEN /\ h_pc' = "returned"
            /\ h_result' = IF rows THEN "rows" ELSE "empty"
            /\ UNCHANGED h_retried
       ELSE IF response = 400
       THEN /\ h_pc' = "returned"
            /\ h_result' = "empty"
            /\ UNCHANGED h_retried
       ELSE IF h_requests + 1 >= MAX_RETRIES
       THEN /\ h_pc' = "raised"
            /\ h_result' = "RuntimeError"
            /\ UNCHANGED h_retried
       ELSE /\ h_retried' = h_retried \cup {response}
            /\ UNCHANGED <<h_pc, h_result>>
    /\ UNCHANGED <<h_op, h_calls>>

\* get_box_score / get_play_by_play: one request of _fetch_json and its
\* response.  tenacity retries while _retryable_http holds and fewer than
\* three attempts were made, then re-raises; the caller turns HTTPError 400
\* into empty frames, re-raises any other HTTPError and wraps any other
\* RequestException in RuntimeError.
DetailResponse(response, rows) ==
    /\ h_pc = "request"
    /\ h_op \in DetailOps
    /\ h_requests' = h_requests + 1
    /\ h_last' = response
    /\ IF response = 200
       THEN /\ h_pc' = "returned"
            /\ h_result' = IF rows THEN "rows" ELSE "empty"
            /\ UNCHANGED h_retried
       ELSE IF retryable_http(response) /\ ~detail_stops(h_requests + 1)
       THEN /\ h_retried' = h_retried \cup {response}
            /\ UNCHANGED <<h_pc, h_result>>
       ELSE IF response = 400
       THEN /\ h_pc' = "returned"
            /\ h_result' = "empty"
            /\ UNCHANGED h_retried
       ELSE /\ h_pc' = "raised"
            /\ h_result' = IF raises_http_error(response) THEN "HTTPError" ELSE "RuntimeError"
            /\ UNCHANGED h_retried
    /\ UNCHANGED <<h_op, h_calls>>

\* the caller has the result, and may call again
HttpDone ==
    /\ h_pc \in {"returned", "raised"}
    /\ h_pc' = "idle"
    /\ UNCHANGED <<h_op, h_requests, h_last, h_retried, h_result, h_calls>>

NextHttp ==
    /\ \/ \E op \in LeagueOps \cup DetailOps : HttpCall(op)
       \/ \E response \in HttpResponses, rows \in BOOLEAN : LeagueResponse(response, rows)
       \/ \E response \in HttpResponses, rows \in BOOLEAN : DetailResponse(response, rows)
       \/ HttpDone
    /\ UNCHANGED notHttpVars

SpecHttp == InitWrite /\ [][NextHttp]_vars

\* the failures the specification calls transient
TransientResponses == {429, 500, 502, 503, 504, NoResponse}

\* C17: a request is retried only after a transient failure (HTTP 429, 500,
\* 502, 503, 504 or a timeout); any other HTTP error status is never retried,
\* in the league-game-log path and in the detail path.
C17_RetriesOnlyTransientFailures == h_retried \subseteq TransientResponses

\* C18: an HTTP 400 response is never retried and ends the operation at
\* once with an empty result and no exception; when it answers the first
\* request, the operation has made exactly one request.
C18_BadRequestIsNoData ==
    /\ 400 \notin h_retried
    /\ (h_requests > 0 /\ h_last = 400) =>
          (h_pc \in {"returned", "idle"} /\ h_result = "empty")
    /\ (h_requests > 0 /\ h_last = 400 /\ h_retried = {}) => h_requests = 1

\* C18 witness: get_box_score got a 400 for its only request and returned
\* empty frames
C18_Witness ==
    /\ h_op = "get_box_score"
    /\ h_pc = "returned"
    /\ h_last = 400
    /\ h_requests = 1
    /\ h_result = "empty"


(***************************************************************************)
(* scripts/fetch_home_away_overrides.py: main, the worker pool of          *)
(* _fetch_overrides step by step, the upsert of _store_overrides, and the  *)
(* way run_pipeline._run reacts to the script's exit status.               *)
(***************************************************************************)
MaxGames == 3
MAX_WORKERS == 4
OVERRIDE_SOURCE == "nba_api_boxscoresummaryv2"
GameIds == 1..MaxGames

\* HOME_TEAM_ID and VISITOR_TEAM_ID of a game, as the API and bronze give them
HomeTeamOf(game_id) == 2 * game_id - 1
AwayTeamOf(game_id) == 2 * game_id

\* the rows of a query, in ascending order of game_id
RECURSIVE SortedSeq(_)
SortedSeq(S) ==
    IF S = {} THEN <<>>
    ELSE LET least == CHOOSE x \in S : \A y \in S : x <= y
         IN  <<least>> \o SortedSeq(S \ {least})

\* _discover_from_bronze: A) home and visitor ids of bronze_game, B) derived
\* from is_home of bronze_box_score_team, C) the game ids alone
discover_from_bronze(bronze) ==
    LET ids == SortedSeq(bronze.games)
    IN  IF bronze.path \in {"A", "B"}
        THEN [i \in 1..Len(ids) |-> <<ids[i], HomeTeamOf(ids[i]), AwayTeamOf(ids[i])>>]
        ELSE [i \in 1..Len(ids) |-> <<ids[i]>>]

\* _discover_games: the explicit ids sorted without duplicates, else the
\* first column of the discovered rows
discover_games(bronze, explicit) ==
    IF explicit # <<>>
    THEN SortedSeq({explicit[i] : i \in 1..Len(explicit)})
    ELSE [i \in 1..Len(discover_from_bronze(bronze)) |-> discover_from_bronze(bronze)[i][1]]

\* _fetch_single(game_id) when the API answers
GameOverride(game_id) ==
    [game_id |-> game_id, team_id_home |-> HomeTeamOf(game_id),
     team_id_away |-> AwayTeamOf(game_id)]

\* _prepare_override_rows
prepare_override_rows(records) ==
    [i \in 1..Len(records) |->
        [game_id |-> records[i].game_id,
         team_id_home |-> records[i].team_id_home,
         team_id_away |-> records[i].team_id_away,
         home_override |-> TRUE, away_override |-> TRUE,
         source |-> OVERRIDE_SOURCE]]

\* a MERGE without its WHEN MATCHED branch, on a table without its key
store_overrides_insert_only(table, rows, dry_run) ==
    IF rows = <<>> \/ dry_run THEN table
    ELSE table \cup {rows[i] : i \in 1..Len(rows)}

\* _store_overrides: nothing for no rows or a dry run, else one MERGE that
\* updates the rows of matching game_id and inserts the others
store_overrides(table, rows, dry_run) ==
    IF rows = <<>> \/ dry_run THEN table
    ELSE {t \in table : \A i \in 1..Len(rows) : rows[i].game_id # t.game_id}
         \cup {rows[i] : i \in 1..Len(rows)}

\* the as_completed loop would stop at the first exception
collect_without_except(overrides, failures, game_id, status) ==
    IF status = "ok"
    THEN [overrides |-> Append(overrides, GameOverride(game_id)), failures |-> failures,
          raised |-> FALSE]
    ELSE [overrides |-> overrides, failures |-> failures, raised |-> TRUE]

\* the body of the as_completed loop: future.result() is appended to
\* overrides, or the game id to failures when it raises
collect(overrides, failures, game_id, status) ==
    IF status = "ok"
    THEN [overrides |-> Append(overrides, GameOverride(game_id)), failures |-> failures,
          raised |-> FALSE]
    ELSE [overrides |-> overrides, failures |-> Append(failures, game_id),
          raised |-> FALSE]

\* a loop that would end as soon as one result has been taken
fetch_returns_after_first(status, collected) == collected # {}

\* the as_completed loop ends when every future has been yielded, and the
\* with-block then shuts the pool down
fetch_returns(status, collected) == collected = DOMAIN status

\* a pool with one worker for every submitted game
workers_one_per_game(game_count) == IF game_count = 0 THEN 1 ELSE game_count

\* workers = min(MAX_WORKERS, len(game_ids)) or 1
workers(game_count) ==
    IF MinOf(MAX_WORKERS, game_count) = 0 THEN 1 ELSE MinOf(MAX_WORKERS, game_count)

\* return 1 if failures and not args.dry_run else 0
override_exit_code(failures, dry_run) == IF failures # <<>> /\ ~dry_run THEN 1 ELSE 0

\* run_pipeline._run: subprocess.run(cmd, check = True) raises
\* CalledProcessError for a non-zero status, and main goes no further
run_stage(returncode) == IF returncode = 0 THEN "apply_schema" ELSE "CalledProcessError"


ExplicitGameIds == {<<>>, <<2, 1, 2>>}
OverrideArgs ==
    {[game_ids |-> g, dry_run |-> d, offline_only |-> o] :
        g \in ExplicitGameIds, d \in BOOLEAN, o \in BOOLEAN}
BronzeStates ==
    {[path |-> p, games |-> 1..n] : p \in {"A", "B", "C"}, n \in 0..MaxGames}

Unfinished == {i \in DOMAIN o_status : o_status[i] \in {"queued", "running"}}
Running == {i \in DOMAIN o_status : o_status[i] = "running"}

\* main up to the submission of every candidate to the pool.  parse_args
\* knows no --offline-only option and exits with status 2 when given it; no
\* candidate ends the script with status 0.
OverridesMain(args, bronze, failing) ==
    /\ o_pc = "idle"
    /\ o_exit = -1
    /\ o_args' = args
    /\ o_bronze' = bronze
    /\ o_failing' = failing
    /\ IF args.offline_only
       THEN /\ o_pc' = "exited"
            /\ o_exit' = 2
            /\ UNCHANGED <<o_candidates, o_status>>
       ELSE LET candidates == discover_games(bronze, args.game_ids)
            IN  /\ o_candidates' = candidates
                /\ o_status' = [i \in 1..Len(candidates) |-> "queued"]
                /\ IF candidates = <<>>
                   THEN o_pc' = "exited" /\ o_exit' = 0
                   ELSE o_pc' = "fetching" /\ UNCHANGED o_exit
    /\ UNCHANGED <<o_collected, o_overrides, o_failures, o_requested, o_table,
                   o_writes, o_stage>>

\* a free worker of the pool takes the next queued game and requests it
StartFetch(i) ==
    /\ o_pc \in {"fetching", "joined", "exited", "done"}
    /\ i \in DOMAIN o_status
    /\ o_status[i] = "queued"
    /\ \A j \in 1..(i - 1) : o_status[j] # "queued"
    /\ Cardinality(Running) < workers(Len(o_candidates))
    /\ o_status' = [o_status EXCEPT ![i] = "running"]
    /\ o_requested' = o_requested \cup {o_candidates[i]}
    /\ UNCHANGED <<o_pc, o_args, o_bronze, o_failing, o_candidates, o_collected,
                   o_overrides, o_failures, o_table, o_writes, o_exit, o_stage>>

\* _fetch_single ends in its worker: it returns a GameOverride, or raises
\* once its attempts are used up or the payload is unusable
FinishFetch(i) ==
    /\ o_pc \in {"fetching", "joined", "exited", "done"}
    /\ i \in DOMAIN o_status
    /\ o_status[i] = "running"
    /\ o_status' = [o_status EXCEPT
                      ![i] = IF o_candidates[i] \in o_failing THEN "failed" ELSE "ok"]
    /\ UNCHANGED <<o_pc, o_args, o_bronze, o_failing, o_candidates, o_collected,
                   o_overrides, o_failures, o_requested, o_table, o_writes, o_exit,
                   o_stage>>

\* as_completed yields a finished future to the calling thread
Collect(i) ==
    /\ o_pc = "fetching"
    /\ i \in DOMAIN o_status \ o_collected
    /\ o_status[i] \in {"ok", "failed"}
    /\ LET c == collect(o_overrides, o_failures, o_candidates[i], o_status[i])
       IN  /\ o_overrides' = c.overrides
           /\ o_failures' = c.failures
           /\ o_collected' = o_collected \cup {i}
           /\ IF c.raised
              THEN o_pc' = "exited" /\ o_exit' = 1
              ELSE UNCHANGED <<o_pc, o_exit>>
    /\ UNCHANGED <<o_args, o_bronze, o_failing, o_candidates, o_status, o_requested,
                   o_table, o_writes, o_stage>>

\* the loop and the with-block end: _fetch_overrides returns
FetchReturns ==
    /\ o_pc = "fetching"
    /\ fetch_returns(o_status, o_collected)
    /\ o_pc' = "joined"
    /\ UNCHANGED <<o_args, o_bronze, o_failing, o_candidates, o_status, o_collected,
                   o_overrides, o_failures, o_requested, o_table, o_writes, o_exit,
                   o_stage>>

\* the rest of main: the rows are prepared and stored by the calling
\* thread, and the exit status is returned
StoreAndExit ==
    /\ o_pc = "joined"
    /\ LET rows == prepare_override_rows(o_overrides)
       IN  /\ o_table' = store_overrides(o_table, rows, o_args.dry_run)
           /\ o_writes' = IF rows = <<>> \/ o_args.dry_run THEN o_writes
                          ELSE Append(o_writes,
                                      [games |-> {rows[i].game_id : i \in 1..Len(rows)},
                                       unfinished |-> Cardinality(Unfinished)])
    /\ o_exit' = override_exit_code(o_failures, o_args.dry_run)
    /\ o_pc' = "exited"
    /\ UNCHANGED <<o_args, o_bronze, o_failing, o_candidates, o_status, o_collected,
                   o_overrides, o_failures, o_requested, o_stage>>

\* run_pipeline._run gets the exit status of the script
PipelineRunReturns ==
    /\ o_pc = "exited"
    /\ o_stage' = run_stage(o_exit)
    /\ o_pc' = "done"
    /\ UNCHANGED <<o_args, o_bronze, o_failing, o_candidates, o_status, o_collected,
                   o_overrides, o_failures, o_requested, o_table, o_writes, o_exit>>

\* the script is interrupted while it resolves the games
OverridesKill ==
    /\ o_pc \in {"fetching", "joined"}
    /\ o_pc' = "killed"
    /\ UNCHANGED <<o_args, o_bronze, o_failing, o_candidates, o_status, o_collected,
                   o_overrides, o_failures, o_requested, o_table, o_writes, o_exit,
                   o_stage>>

NextOverrides ==
    /\ \/ /\ o_pc = "idle"
          /\ \E args \in OverrideArgs, bronze \in BronzeStates :
             \E failing \in SUBSET {discover_games(bronze, args.game_ids)[i] :
                                      i \in 1..Len(discover_games(bronze, args.game_ids))} :
                OverridesMain(args, bronze, failing)
       \/ \E i \in GameIds : StartFetch(i)
       \/ \E i \in GameIds : FinishFetch(i)
       \/ \E i \in GameIds : Collect(i)
       \/ FetchReturns
       \/ StoreAndExit
       \/ PipelineRunReturns
       \/ OverridesKill
    /\ UNCHANGED notOverridesVars

SpecOverrides == InitWrite /\ [][NextOverrides]_vars


GamesOf(seq) == {seq[i] : i \in 1..Len(seq)}
ResolvedGames == {o_overrides[i].game_id : i \in 1..Len(o_overrides)}
StoredGames == {t.game_id : t \in o_table}
Ended == o_pc \in {"exited", "done"}

\* C11: when some game could not be resolved, the run still succeeds: the
\* overrides of the resolved games are stored, the script exits with status
\* 0 and run_pipeline goes on to its next stage.
C11_UnresolvedGameNeverFailsTheRun ==
    (Ended /\ o_failures # <<>>) =>
        /\ o_exit = 0
        /\ ~o_args.dry_run => ResolvedGames \subseteq StoredGames
        /\ o_pc = "done" => o_stage = "apply_schema"

\* C12: a job over many games that is interrupted when all but one of its
\* games have been resolved has already flushed a batch: the override table
\* holds at least one of the resolved games.
C12_FlushedBeforeAllFetchesFinish ==
    (o_pc = "killed" /\ ~o_args.dry_run /\ Len(o_candidates) >= MaxGames
        /\ Len(o_overrides) >= Len(o_candidates) - 1) =>
        ResolvedGames \cap StoredGames # {}

\* C13: every upsert into the override table was executed when no fetch
\* worker was running or waiting to run, and results are taken only from
\* finished workers.
C13_NoWriteWhileWorkersRun ==
    /\ \A k \in 1..Len(o_writes) : o_writes[k].unfinished = 0
    /\ o_table # {} => Unfinished = {}
    /\ \A i \in o_collected : o_status[i] \in {"ok", "failed"}

\* C13 witness: three games were fetched by the pool, and the upsert was
\* made after the last of them had finished
C13_Witness ==
    /\ Len(o_candidates) = MaxGames
    /\ Len(o_writes) = 1
    /\ StoredGames # {}
    /\ o_failures # <<>>

C15_ResolvedLocallyFirst ==
    (Ended /\ o_exit = 0 /\ o_args.game_ids = <<>> /\ o_bronze.path \in {"A", "B"}) =>
        /\ o_requested \cap o_bronze.games = {}
        /\ ~o_args.dry_run =>
              \A t \in o_table : t.game_id \in o_bronze.games => t.source = "local"


(***************************************************************************)
(* scripts/check_quality.py: the six checks over silver.team_game_cov, run *)
(* once over the modern rows and once over the legacy rows, and the exit   *)
(* status of main.  SQL booleans are "TRUE", "FALSE" and "NULL".           *)
(***************************************************************************)
MaxQualityRows == 3
SqlNull == "NULL"

\* COALESCE(x, FALSE) of a boolean column
coalesce_false(x) == IF x = SqlNull THEN FALSE ELSE x = "TRUE"

\* UPPER(COALESCE(wl, ''))
upper_wl(wl) ==
    IF wl = SqlNull THEN ""
    ELSE IF wl = "w" THEN "W"
    ELSE IF wl = "l" THEN "L"
    ELSE wl

\* a filter that takes every valid row for a modern one
MODERN_FILTER_ANY_VALID(row) == coalesce_false(row.row_valid_any)

\* MODERN_FILTER and LEGACY_FILTER
MODERN_FILTER(row) == coalesce_false(row.row_valid_modern)
LEGACY_FILTER(row) ==
    coalesce_false(row.row_valid_any) /\ ~coalesce_false(row.row_valid_modern)

filter_rows(rows, filter) ==
    {row \in rows : IF filter = "modern" THEN MODERN_FILTER(row) ELSE LEGACY_FILTER(row)}

\* GROUP BY game_id, season_type
group_keys(rows) == {<<row.game_id, row.season_type>> : row \in rows}
group_rows(rows, key) == {row \in rows : <<row.game_id, row.season_type>> = key}

\* wl_imbalance: HAVING wins <> 1 OR losses <> 1
wl_imbalance(rows) ==
    {key \in group_keys(rows) :
        LET wins == Cardinality({row \in group_rows(rows, key) : upper_wl(row.wl) = "W"})
            losses == Cardinality({row \in group_rows(rows, key) : upper_wl(row.wl) = "L"})
        IN  wins # 1 \/ losses # 1}

\* a check that does not count the rows of unknown side
home_away_imbalance_ignores_null(rows) ==
    {key \in group_keys(rows) :
        LET home_ct == Cardinality({row \in group_rows(rows, key) : row.is_home = "TRUE"})
            away_ct == Cardinality({row \in group_rows(rows, key) : row.is_home = "FALSE"})
        IN  home_ct # 1 \/ away_ct # 1}

\* home_away_imbalance: HAVING home_ct <> 1 OR away_ct <> 1 OR null_ct > 0
home_away_imbalance(rows) ==
    {key \in group_keys(rows) :
        LET home_ct == Cardinality({row \in group_rows(rows, key) : row.is_home = "TRUE"})
            away_ct == Cardinality({row \in group_rows(rows, key) : row.is_home = "FALSE"})
            null_ct == Cardinality({row \in group_rows(rows, key) : row.is_home = SqlNull})
        IN  home_ct # 1 \/ away_ct # 1 \/ null_ct > 0}

\* the four checks that flag single rows; row.flag names the check whose
\* condition the row's columns meet, "none" when they meet none
ROW_CHECKS == <<"pct_out_of_range", "minutes_implausible", "points_mismatch", "team_unknown">>
row_check(key, rows) == {row \in rows : row.flag = key}

\* CHECKS, in order
CHECKS == <<"wl_imbalance", "home_away_imbalance">> \o ROW_CHECKS

\* _collect(con, check, filter_sql)[0]: total_rows of the flagged rows
collect_total(check, rows, filter) ==
    IF check = "wl_imbalance" THEN Cardinality(wl_imbalance(filter_rows(rows, filter)))
    ELSE IF check = "home_away_imbalance"
    THEN Cardinality(home_away_imbalance(filter_rows(rows, filter)))
    ELSE Cardinality(row_check(check, filter_rows(rows, filter)))

\* the checks of CHECKS, in order, whose total under the filter is not 0
RECURSIVE flagged_checks(_, _, _)
flagged_checks(rows, filter, k) ==
    IF k > Len(CHECKS) THEN <<>>
    ELSE (IF collect_total(CHECKS[k], rows, filter) # 0 THEN <<CHECKS[k]>> ELSE <<>>)
         \o flagged_checks(rows, filter, k + 1)

\* main: return 1 if failures else 0
quality_exit_code(failures) == IF failures # <<>> THEN 1 ELSE 0


\* the rows the warehouse may hold: two participants' rows, a row that
\* repeats the winner as a visitor, and a row with neither outcome nor side;
\* valid and modern, valid but not modern, or not valid at all
QualityGroups == {<<1, "Regular Season">>, <<1, "Playoffs">>}
QualitySides ==
    {[wl |-> "W", is_home |-> "TRUE"], [wl |-> "l", is_home |-> "FALSE"],
     [wl |-> "W", is_home |-> "FALSE"], [wl |-> SqlNull, is_home |-> SqlNull]}
QualityValidity ==
    {[row_valid_modern |-> "TRUE", row_valid_any |-> "TRUE"],
     [row_valid_modern |-> SqlNull, row_valid_any |-> "TRUE"],
     [row_valid_modern |-> SqlNull, row_valid_any |-> SqlNull]}
QualityRow(key, side, validity, flag) ==
    [game_id |-> key[1], season_type |-> key[2], wl |-> side.wl, is_home |-> side.is_home,
     row_valid_modern |-> validity.row_valid_modern,
     row_valid_any |-> validity.row_valid_any, flag |-> flag]
QualityRows ==
    {QualityRow(key, side, validity, "none") :
        key \in QualityGroups, side \in QualitySides, validity \in QualityValidity}
    \cup {QualityRow(<<1, "Regular Season">>, [wl |-> "W", is_home |-> "TRUE"], validity,
                     ROW_CHECKS[k]) :
            validity \in QualityValidity, k \in 1..Len(ROW_CHECKS)}

\* the pipeline's earlier stages put one more row into silver.team_game_cov
QualityLoad(row) ==
    /\ Cardinality(q_rows) < MaxQualityRows
    /\ row \notin q_rows
    /\ q_rows' = q_rows \cup {row}
    /\ q_pc' = "idle"
    /\ q_failures' = <<>>
    /\ q_warnings' = <<>>
    /\ q_exit' = -1

\* check_quality.main
QualityMain ==
    /\ q_pc = "idle"
    /\ q_failures' = flagged_checks(q_rows, "modern", 1)
    /\ q_warnings' = flagged_checks(q_rows, "legacy", 1)
    /\ q_exit' = quality_exit_code(flagged_checks(q_rows, "modern", 1))
    /\ q_pc' = "ran"
    /\ UNCHANGED q_rows

NextQuality ==
    /\ \/ \E row \in QualityRows : QualityLoad(row)
       \/ QualityMain
    /\ UNCHANGED notQualityVars

SpecQuality == InitWrite /\ [][NextQuality]_vars

\* the rows counted as modern, and as legacy
ModernRows == {row \in q_rows : row.row_valid_modern = "TRUE"}
LegacyRows == {row \in q_rows : row.row_valid_any = "TRUE" /\ row.row_valid_modern # "TRUE"}

\* number of rows of `rows` in the group of `row` whose column `col` is in `values`
CountInGroup(rows, row, col, values) ==
    Cardinality({r \in rows : /\ r.game_id = row.game_id
                              /\ r.season_type = row.season_type
                              /\ r[col] \in values})

\* some row of `rows` is in a group without exactly one winner, one loser,
\* one home row and one away row, or with a row of unknown side, or meets
\* the condition of a row-level check
ViolationAmong(rows) ==
    \E row \in rows :
        \/ CountInGroup(rows, row, "wl", {"W", "w"}) # 1
        \/ CountInGroup(rows, row, "wl", {"L", "l"}) # 1
        \/ CountInGroup(rows, row, "is_home", {"TRUE"}) # 1
        \/ CountInGroup(rows, row, "is_home", {"FALSE"}) # 1
        \/ CountInGroup(rows, row, "is_home", {SqlNull}) > 0
        \/ row.flag # "none"

\* C20: check_quality.main exits non-zero exactly when some check finds a
\* violation among the modern rows; violations found only among legacy rows
\* are reported as warnings and the exit status is 0.
C20_FailsExactlyOnModernViolations ==
    q_pc = "ran" =>
        /\ q_exit = (IF ViolationAmong(ModernRows) THEN 1 ELSE 0)
        /\ (q_failures # <<>>) = ViolationAmong(ModernRows)
        /\ (q_warnings # <<>>) = ViolationAmong(LegacyRows)

\* C20 witness: the modern rows are one balanced game, a legacy row is an
\* imbalanced game of its own, and main has passed with a warning
C20_Witness ==
    /\ q_pc = "ran"
    /\ Cardinality(ModernRows) = 2
    /\ ~ViolationAmong(ModernRows)
    /\ ViolationAmong(LegacyRows)
    /\ q_warnings # <<>>
    /\ q_exit = 0


(***************************************************************************)
(* SpecWriteLabels: _write_dataframe calls whose rows differ only in the   *)
(* spelling of the season-type label.                                      *)
(***************************************************************************)

\* str.lower() of the labels in use
season_type_lower(value) ==
    CASE value = "Pre Season" -> "pre season"
      [] value = "In Season Tournament" -> "in season tournament"
      [] value = "In-Season Tournament" -> "in-season tournament"
      [] value = "Regular Season" -> "regular season"
      [] value = "Playoffs" -> "playoffs"
      [] OTHER -> value

\* extract.SEASON_TYPE_CANON
SEASON_TYPE_CANON(lowered) ==
    CASE lowered = "regular season" -> "Regular Season"
      [] lowered \in {"pre season", "preseason"} -> "Pre Season"
      [] lowered \in {"playin", "play-in"} -> "PlayIn"
      [] lowered \in {"playoffs", "post season"} -> "Playoffs"
      [] lowered \in {"in season tournament", "in-season tournament"} -> "In-Season Tournament"
      [] OTHER -> None

\* extract._canon_season_type: the canonical label, or the value itself
canon_season_type(value) ==
    IF SEASON_TYPE_CANON(season_type_lower(value)) = None THEN value
    ELSE SEASON_TYPE_CANON(season_type_lower(value))

LabelSpellings == {"Pre Season", "preseason", "In Season Tournament", "In-Season Tournament"}
LabelRows ==
    [game_id : {<<"1">>}, team_id : RawTeamIds, season_type : LabelSpellings,
     game_date : {1}]
LabelBatches == SeqsUpTo(LabelRows, MaxBatch)

NextWriteLabels ==
    \/ \E frame \in LabelBatches, append \in BOOLEAN : WriteCall(frame, append)
    \/ WriteReturn

SpecWriteLabels == InitWrite /\ [][NextWriteLabels]_vars

\* C21: rows of one game and team whose season-type labels are spellings of
\* the same subtype are one composite key: the file written by the merge
\* holds at most one of them.
C21_SynonymLabelsStoredOnce ==
    \A i, j \in 1..Len(w_file.rows) :
        (/\ IdValue(w_file.rows[i].game_id) = IdValue(w_file.rows[j].game_id)
         /\ IdValue(w_file.rows[i].team_id) = IdValue(w_file.rows[j].team_id)
         /\ canon_season_type(w_file.rows[i].season_type)
              = canon_season_type(w_file.rows[j].season_type))
        => i = j


----------------------------------------------------------------------------
(* SpecWriteKeys: _write_dataframe calls whose identifiers come zero-padded *)
(* or surrounded by blanks, as upstream text, next to the bare number.     *)

KeySpellings == {<<"1">>, <<"0", "1">>, <<" ", "1">>, <<"0", "1", " ">>, <<"2">>}
KeyRows ==
    [game_id : KeySpellings, team_id : {<<"7">>, <<" ", "0", "7">>},
     season_type : {"Regular Season"}, game_date : {1}]
KeyBatches == SeqsUpTo(KeyRows, MaxBatch)

NextWriteKeys ==
    \/ \E frame \in KeyBatches, append \in BOOLEAN : WriteCall(frame, append)
    \/ WriteReturn

SpecWriteKeys == InitWrite /\ [][NextWriteKeys]_vars

----------------------------------------------------------------------------
(* SpecDailyStore: runs of update.daily on a game.csv that an earlier      *)
(* full-history refresh has left; no watermark file has been written.      *)

SeedRows ==
    [game_id : {<<"1">>, <<"2">>}, team_id : RawTeamIds,
     season_type : {"Regular Season"}, game_date : 0..MaxDay]

\* game.csv as _write_dataframe(append = False) writes the rows of a refresh
StoreStates ==
    {write_dataframe(NoFile, frame, FALSE).file : frame \in SeqsUpTo(SeedRows, MaxBatch)}

\* an earlier daily(fetch_all_history=True) has left game.csv as file
SeedStore(file) ==
    /\ d_prev = "fresh" /\ ~d_run.called /\ d_runs = 0
    /\ d_store' = file
    /\ d_prev' = "seeded"
    /\ UNCHANGED <<d_watermark, d_today, d_run, d_runs>>
    /\ UNCHANGED notDailyVars

NextDailyStore ==
    \/ \E file \in StoreStates : SeedStore(file)
    \/ \E cli \in RunArgs : Run(cli)
    \/ RunReturn

SpecDailyStore == InitWrite /\ [][NextDailyStore]_vars

WindowStart ==
    IF d_run.args.start_date # NoDate THEN d_run.args.start_date
    ELSE IF StoredWatermark(d_run.before) = 0 THEN 0
    ELSE StoredWatermark(d_run.before) + 1

\* the end of the window: yesterday, or the explicit end clamped to yesterday
WindowEnd ==
    IF d_run.args.end_date = NoDate THEN d_run.today - 1
    ELSE MinOf(d_run.args.end_date, d_run.today - 1)

\* C24: an incremental or explicit-window run on an existing game.csv whose
\* start lies after the end of its window returns successfully, reports
\* rows_written = 0 and the number of stored rows as final_row_count, has
\* made no upstream request and has left game.csv as it was.
C24_EmptyWindowIsNoWork ==
    (Incremental /\ d_run.before.exists /\ WindowStart # 0
        /\ WindowStart > WindowEnd) =>
        /\ d_run.status = "ok"
        /\ d_run.exit = "0"
        /\ d_run.rows_written = 0
        /\ d_run.final_row_count = Len(d_run.before.rows)
        /\ d_run.requests = <<>>
        /\ d_store = d_run.before

\* C24 witness: the start is not after yesterday, but it is after the explicit
\* end; game.csv holds rows.
C24_Witness ==
    /\ Incremental /\ d_run.before.exists /\ d_run.before.rows # <<>>
    /\ WindowStart # 0
    /\ WindowStart <= d_run.today - 1
    /\ d_run.args.end_date # NoDate
    /\ WindowStart > d_run.args.end_date
    /\ d_run.status = "ok"
    /\ d_run.final_row_count = Len(d_store.rows)


\* C25 (as claimed): whenever daily returns successfully, in any mode and on
\* any return path, the final_row_count it reports is the number of rows
\* game.csv holds at that moment.
C25_FinalRowCountIsStoredRowCount ==
    (d_run.called /\ d_run.status = "ok") =>
        d_run.final_row_count = Len(d_store.rows)


\* C27 (as claimed): after a successful full-history run game.csv holds
\* exactly the rows the fetch of that run returned, one per key, and no row
\* it held before, whatever the fetch returned.
C27_ReplaceLeavesOnlyFetchedRows ==
    (d_run.called /\ d_run.status = "ok" /\ d_run.cli.fetch_all_history) =>
        /\ OneRowPerKey(d_store.rows)
        /\ EntityKeys(d_store.rows) = EntityKeys(d_run.fetched)
        /\ \A i \in 1..Len(d_store.rows) :
               \E j \in 1..Len(d_run.fetched) :
                   d_store.rows[i] = Stored(d_run.fetched[j])

MaxSyncDay == 3
MaxSyncCalls == 2

\* date(1946, 11, 1)
HISTORICAL_START_DATE == 1

SyncToday == MaxSyncDay

SyncArgs ==
    [start_date : 0..MaxSyncDay, end_date : 0..MaxSyncDay, force : BOOLEAN,
     fetch_all_history : BOOLEAN]

\* stop = _parse_date(end_date), or date.today()
sync_stop(args) == IF args.end_date = NoDate THEN SyncToday ELSE args.end_date

sync_start_prefers_explicit(args, last_updated) ==
    IF args.start_date # NoDate THEN args.start_date
    ELSE IF args.fetch_all_history THEN HISTORICAL_START_DATE
    ELSE IF last_updated # NoDate THEN last_updated + 1
    ELSE HISTORICAL_START_DATE

sync_start_prefers_manifest(args, last_updated) ==
    IF args.fetch_all_history THEN HISTORICAL_START_DATE
    ELSE IF last_updated # NoDate THEN last_updated + 1
    ELSE IF args.start_date # NoDate THEN args.start_date
    ELSE HISTORICAL_START_DATE

\* start: the epoch in full-history mode, else the explicit one, else the day
\* after the manifest's last_updated, else _default_start_date()
sync_start(args, last_updated) ==
    IF args.fetch_all_history THEN HISTORICAL_START_DATE
    ELSE IF args.start_date # NoDate THEN args.start_date
    ELSE IF last_updated # NoDate THEN last_updated + 1
    ELSE HISTORICAL_START_DATE

\* _season_start_year and _season_end_date
sync_season_start_year(d) == season_year(d)
sync_season_end_date(year) == season_end(year)

\* what the loop iterates over: the dates of _date_range(start, stop), or the
\* season years of _historical_season_range(start, stop)
sync_first(args, start) ==
    IF args.fetch_all_history THEN sync_season_start_year(start) ELSE start
sync_last(args, stop) ==
    IF args.fetch_all_history THEN sync_season_start_year(stop) ELSE stop

\* the last_updated the loop records for a date or a season
sync_last_updated(args, stop, target) ==
    IF args.fetch_all_history THEN MinOf(stop, sync_season_end_date(target))
    ELSE target

\* <date>_leaguegamelog.csv, or leaguegamelog/season=<label>/part-000.csv
sync_destination(args, target) ==
    [kind |-> IF args.fetch_all_history THEN "season" ELSE "date", key |-> target]

file_exists(files, destination) ==
    \E f \in files : f.kind = destination.kind /\ f.key = destination.key

\* the call up to the loop: the manifest is loaded, the metadata fetched, the
\* range computed; an empty range returns at once
UpdateRawData(args, metadata_ok) ==
    /\ s_pc = "idle"
    /\ s_calls < MaxSyncCalls
    /\ s_calls' = s_calls + 1
    /\ s_args' = args
    /\ s_manifest' = s_disk
    /\ s_before' = s_disk
    /\ s_skipped' = <<>>
    /\ s_processed' = <<>>
    /\ IF ~metadata_ok
       THEN /\ s_pc' = "raised"
            /\ s_clean' = FALSE
            /\ s_start' = NoDate /\ s_stop' = NoDate /\ s_target' = NoDate
       ELSE /\ UNCHANGED s_clean
            /\ s_start' = sync_start(args, s_disk)
            /\ s_stop' = sync_stop(args)
            /\ s_target' = sync_first(args, sync_start(args, s_disk))
            /\ s_pc' = IF sync_start(args, s_disk) > sync_stop(args)
                          THEN "returned" ELSE "loop"
    /\ UNCHANGED <<s_files, s_disk, s_empty>>
    /\ UNCHANGED notSyncVars

\* destination.exists() and not force
skips(files, args, target) ==
    file_exists(files, sync_destination(args, target)) /\ ~args.force

\* the file of the date or season exists: it is skipped; the season loop
\* writes the manifest, the day loop only updates the one in memory
SyncSkip ==
    /\ s_pc = "loop" /\ s_target <= sync_last(s_args, s_stop)
    /\ skips(s_files, s_args, s_target)
    /\ s_skipped' = Append(s_skipped, s_target)
    /\ s_processed' = Append(s_processed, s_target)
    /\ s_manifest' = sync_last_updated(s_args, s_stop, s_target)
    /\ s_disk' = IF s_args.fetch_all_history
                 THEN sync_last_updated(s_args, s_stop, s_target) ELSE s_disk
    /\ s_target' = s_target + 1
    /\ UNCHANGED <<s_files, s_pc, s_args, s_start, s_stop, s_empty, s_before, s_clean, s_calls>>
    /\ UNCHANGED notSyncVars

\* the fetch returns: an empty frame is only noted, for any other frame
\* frame.to_csv(destination) opens the file, which now exists without all
\* its rows
SyncFetch(empty) ==
    /\ s_pc = "loop" /\ s_target <= sync_last(s_args, s_stop)
    /\ ~skips(s_files, s_args, s_target)
    /\ s_processed' = Append(s_processed, s_target)
    /\ LET destination == sync_destination(s_args, s_target) IN
       IF empty
       THEN /\ s_pc' = "written"
            /\ s_empty' = s_empty \cup {destination}
            /\ UNCHANGED s_files
       ELSE /\ s_pc' = "writing"
            /\ s_files' = {f \in s_files : f.kind # destination.kind \/ f.key # destination.key}
                            \cup {[kind |-> destination.kind, key |-> destination.key,
                                   complete |-> FALSE]}
            /\ UNCHANGED s_empty
    /\ UNCHANGED <<s_disk, s_manifest, s_args, s_start, s_stop, s_target,
                   s_skipped, s_before, s_clean, s_calls>>
    /\ UNCHANGED notSyncVars

\* frame.to_csv(destination) has written every row and closed the file
SyncCsvWritten ==
    /\ s_pc = "writing"
    /\ LET destination == sync_destination(s_args, s_target) IN
       s_files' = {IF f.kind = destination.kind /\ f.key = destination.key
                   THEN [f EXCEPT !.complete = TRUE] ELSE f : f \in s_files}
    /\ s_pc' = "written"
    /\ UNCHANGED <<s_disk, s_manifest, s_args, s_start, s_stop, s_target,
                   s_skipped, s_processed, s_empty, s_before, s_clean, s_calls>>
    /\ UNCHANGED notSyncVars

\* manifest["last_updated"] is set and _write_manifest called; the loop goes on
SyncWriteManifest ==
    /\ s_pc = "written"
    /\ s_manifest' = sync_last_updated(s_args, s_stop, s_target)
    /\ s_disk' = sync_last_updated(s_args, s_stop, s_target)
    /\ s_target' = s_target + 1
    /\ s_pc' = "loop"
    /\ UNCHANGED <<s_files, s_args, s_start, s_stop, s_skipped, s_processed,
                   s_empty, s_before, s_clean, s_calls>>
    /\ UNCHANGED notSyncVars

\* _fetch_game_logs_for_date or _fetch_game_logs_for_season raises
\* RuntimeError after its attempts
SyncFetchRaises ==
    /\ s_pc = "loop" /\ s_target <= sync_last(s_args, s_stop)
    /\ ~skips(s_files, s_args, s_target)
    /\ s_pc' = "raised"
    /\ s_clean' = FALSE
    /\ UNCHANGED <<s_files, s_disk, s_manifest, s_args, s_start, s_stop,
                   s_target, s_skipped, s_processed, s_empty, s_before, s_calls>>
    /\ UNCHANGED notSyncVars

\* the loop is exhausted: the UpdateSummary is returned
SyncReturn ==
    /\ s_pc = "loop" /\ s_target > sync_last(s_args, s_stop)
    /\ s_pc' = "returned"
    /\ UNCHANGED <<s_files, s_disk, s_manifest, s_args, s_start, s_stop,
                   s_target, s_skipped, s_processed, s_empty, s_before, s_clean, s_calls>>
    /\ UNCHANGED notSyncVars

\* the process is stopped from outside, wherever the loop stands
SyncKill ==
    /\ s_pc \in {"loop", "writing", "written"}
    /\ s_pc' = "killed"
    /\ s_clean' = FALSE
    /\ UNCHANGED <<s_files, s_disk, s_manifest, s_args, s_start, s_stop,
                   s_target, s_skipped, s_processed, s_empty, s_before, s_calls>>
    /\ UNCHANGED notSyncVars

\* the caller goes on; the next call starts from the files on disk
SyncDone ==
    /\ s_pc \in {"returned", "raised", "killed"}
    /\ s_pc' = "idle"
    /\ UNCHANGED <<s_files, s_disk, s_manifest, s_args, s_start, s_stop,
                   s_target, s_skipped, s_processed, s_empty, s_before, s_clean, s_calls>>
    /\ UNCHANGED notSyncVars

NextSync ==
    \/ /\ s_pc = "idle"
       /\ \E args \in SyncArgs, metadata_ok \in BOOLEAN : UpdateRawData(args, metadata_ok)
    \/ SyncSkip
    \/ \E empty \in BOOLEAN : SyncFetch(empty)
    \/ SyncCsvWritten
    \/ SyncWriteManifest
    \/ SyncFetchRaises
    \/ SyncReturn
    \/ SyncKill
    \/ SyncDone

SpecSync == InitWrite /\ [][NextSync]_vars

\* C28 (as claimed): when a day-by-day run over [start, stop], start <= stop,
\* has returned, manifest.json on disk carries last_updated = stop, whichever
\* dates of the range were skipped.
C28_ManifestOnDiskReachesStop ==
    (s_pc = "returned" /\ ~s_args.fetch_all_history /\ s_start <= s_stop) =>
        s_disk = s_stop


----------------------------------------------------------------------------
(* Claims about the windows of extract.get_league_game_log_from_date,      *)
(* checked under SpecExtract.                                              *)

\* the windows the requests made so far were for
RequestedWindows ==
    {[date_from |-> e_requests[i].date_from, date_to |-> e_requests[i].date_to] :
        i \in 1..Len(e_requests)}

\* the season types requested for window w, in the order of the requests
RequestedTypes(w) ==
    LET mine == SelectSeq(e_requests,
                    LAMBDA r : r.date_from = w.date_from /\ r.date_to = w.date_to)
    IN  [i \in 1..Len(mine) |-> mine[i].season_type]

\* the month a day lies in, counted from day 1
MonthIndex(d) == (d - 1) \div DaysPerMonth

\* C29: when a call over [start, end], start <= end, has returned, the
\* windows it requested lie inside the range and inside one calendar month
\* each, every date of the range lies in exactly one of them, they were
\* requested in date order, each with exactly the season types of
\* season_types_for_window, once each; there are at most as many windows as
\* dates in the range.
C29_MonthWindowsPartitionTheRange ==
    (e_pc = "returned" /\ e_start <= e_final) =>
        /\ \A w \in RequestedWindows :
              /\ e_start <= w.date_from /\ w.date_from <= w.date_to
              /\ w.date_to <= e_final
              /\ MonthIndex(w.date_from) = MonthIndex(w.date_to)
              /\ RequestedTypes(w) = season_types_for_window(w.date_from, w.date_to)
        /\ \A d \in e_start..e_final :
              Cardinality({w \in RequestedWindows :
                              w.date_from <= d /\ d <= w.date_to}) = 1
        /\ \A i, j \in 1..Len(e_requests) :
              i < j => e_requests[i].date_from <= e_requests[j].date_from
        /\ Cardinality(RequestedWindows) <= e_final - e_start + 1

\* C29 witness: the range starts on the last day of a month and ends in the
\* next one; two windows were requested.
C29_Witness ==
    /\ e_pc = "returned"
    /\ MonthIndex(e_start) < MonthIndex(e_final)
    /\ Cardinality(RequestedWindows) = 2
    /\ \E w \in RequestedWindows : w.date_from = e_start /\ w.date_to = e_start


\* C30 (as claimed): a request that returned, with rows or without, is
\* followed by the fixed delay before the next request is made.
C30_DelayAfterEverySuccessfulRequest ==
    \A i \in 1..Len(e_sleeps) :
        i < Len(e_requests) => e_sleeps[i] = EXTRACT_REQUEST_SLEEP_SECONDS


----------------------------------------------------------------------------
(* Claims about update_raw_data, checked under SpecSync.                   *)

\* the season years from a to b in ascending order
SeasonsFromTo(a, b) == [i \in 1..(b - a + 1) |-> a + i - 1]

DateHandled(d) ==
    \/ [kind |-> "date", key |-> d, complete |-> TRUE] \in s_files
    \/ [kind |-> "date", key |-> d] \in s_empty

\* C36 (as claimed, for the runs it names a restart for): in a day-by-day run
\* without explicit start, wherever the process stands or was stopped, every
\* date from the start of the run to the last_updated persisted in
\* manifest.json has been handled completely.
C36_PersistedDatesAreHandled ==
    (s_start # NoDate /\ ~s_args.fetch_all_history /\ s_args.start_date = NoDate) =>
        \A d \in s_start..s_disk : DateHandled(d)

\* C37 (as claimed): when a run has returned, and no run before it has raised
\* or been stopped, the last_updated persisted in manifest.json is not lower
\* than it was when the run began.
C37_PersistedLastUpdatedNeverDecreases ==
    (s_pc = "returned" /\ s_clean) => s_disk >= s_before

\* the start the documented precedence gives
PrecedenceStart(args, last_updated) ==
    CASE args.fetch_all_history -> HISTORICAL_START_DATE
      [] ~args.fetch_all_history /\ args.start_date # NoDate -> args.start_date
      [] ~args.fetch_all_history /\ args.start_date = NoDate /\ last_updated # NoDate ->
            last_updated + 1
      [] OTHER -> HISTORICAL_START_DATE

----------------------------------------------------------------------------
(* Claims about explicit windows of daily, checked under SpecDaily.        *)

----------------------------------------------------------------------------
(* Claims about the attempts of a detail fetch, checked under SpecHttp.    *)

\* C33: get_box_score and get_play_by_play make at most 3 HTTP requests;
\* when the third request is made (the first two failed with a retryable
\* error) and succeeds, the operation returns the frame of that response;
\* when the third fails with a retryable error too, the operation raises and
\* returns no rows.
C33_DetailFetchStopsAfterThreeAttempts ==
    h_op \in DetailOps =>
        /\ h_requests <= DETAIL_STOP_AFTER_ATTEMPT
        /\ (h_requests = DETAIL_STOP_AFTER_ATTEMPT /\ h_last = 200) =>
              (h_pc \in {"returned", "idle"} /\ h_result \in {"rows", "empty"})
        /\ (h_requests = DETAIL_STOP_AFTER_ATTEMPT /\ retryable_http(h_last)) =>
              (h_pc \in {"raised", "idle"} /\ h_result \in {"HTTPError", "RuntimeError"})
        /\ (h_requests > 1 /\ h_pc = "request") => h_retried # {}

\* C33 witness: get_box_score was answered 503, then got no response, then
\* 200 with rows, and returned them.
C33_Witness ==
    /\ h_op = "get_box_score"
    /\ h_requests = DETAIL_STOP_AFTER_ATTEMPT
    /\ h_retried = {503, NoResponse}
    /\ h_last = 200
    /\ h_pc = "returned"
    /\ h_result = "rows"


----------------------------------------------------------------------------
(* SpecPool: one run of fetch_home_away_overrides.main over more games     *)
(* than the pool has workers.                                              *)

MaxPoolGames == 5

PoolArgs ==
    {[game_ids |-> <<>>, dry_run |-> d, offline_only |-> FALSE] : d \in BOOLEAN}
PoolBronzeStates ==
    {[path |-> "C", games |-> 1..n] : n \in {1, MaxPoolGames}}

NextPool ==
    /\ \/ /\ o_pc = "idle"
          /\ \E args \in PoolArgs, bronze \in PoolBronzeStates :
             \E failing \in {{}, {1}} : OverridesMain(args, bronze, failing)
       \/ \E i \in 1..MaxPoolGames : StartFetch(i)
       \/ \E i \in 1..MaxPoolGames : FinishFetch(i)
       \/ \E i \in 1..MaxPoolGames : Collect(i)
       \/ FetchReturns
       \/ StoreAndExit
    /\ UNCHANGED notOverridesVars

SpecPool == InitWrite /\ [][NextPool]_vars

\* C34: at every moment of _fetch_overrides at most MAX_WORKERS games are
\* being requested from the API, however many games were submitted.
C34_AtMostMaxWorkersInFlight == Cardinality(Running) <= MAX_WORKERS

\* C34 witness: more games than workers were submitted; MAX_WORKERS of them
\* are being requested while another one waits in the queue.
C34_Witness ==
    /\ Len(o_candidates) > MAX_WORKERS
    /\ Cardinality(Running) = MAX_WORKERS
    /\ \E i \in DOMAIN o_status : o_status[i] = "queued"


----------------------------------------------------------------------------
(* Claims about the exit status of run_daily_update.main, checked under    *)
(* SpecDaily.                                                              *)

\* C35 (as claimed): main returns 0 exactly when update.daily returned a
\* result, and returns the non-zero status 1 whenever daily raised: for a
\* missing game.csv, for a game.csv without any valid date, and for a fetch
\* that failed after its retries.
C35_MainReturnsStatusForEveryOutcome ==
    d_run.called =>
        /\ (d_run.exit = "0") <=> (d_run.status = "ok")
        /\ d_run.status # "ok" => d_run.exit = "1"


----------------------------------------------------------------------------
(* SpecStore: a sequence of _store_overrides calls on one database, each   *)
(* with the rows _prepare_override_rows makes of a batch of resolved       *)
(* games.  What the API says about a game may change from batch to batch.  *)

MaxStoreCalls == 3
MaxStoreGames == 2

\* the GameOverride records _fetch_single may return for a game
StoreRecords ==
    [game_id : 1..MaxStoreGames, team_id_home : {11, 12}, team_id_away : {21}]

\* the overrides of one run, in which a game occurs once
StoreBatches ==
    {b \in SeqsUpTo(StoreRecords, MaxStoreGames) :
        \A i, j \in 1..Len(b) : i < j => b[i].game_id < b[j].game_id}

\* _ensure_table (a table that exists is left alone), then
\* _store_overrides(con, _prepare_override_rows(overrides), dry_run)
StoreOverrides(overrides, dry_run) ==
    /\ m_calls < MaxStoreCalls
    /\ m_calls' = m_calls + 1
    /\ LET rows == prepare_override_rows(overrides)
       IN  /\ m_table' = store_overrides(m_table, rows, dry_run)
           /\ m_last' = [called |-> TRUE, before |-> m_table, rows |-> rows,
                         dry_run |-> dry_run]
    /\ UNCHANGED notStoreVars

NextStore ==
    \E overrides \in StoreBatches, dry_run \in BOOLEAN : StoreOverrides(overrides, dry_run)

SpecStore == InitWrite /\ [][NextStore]_vars

BatchGames == {m_last.rows[i].game_id : i \in 1..Len(m_last.rows)}

\* C39: after every _store_overrides call the table holds at most one row
\* for a game_id; after a call that is no dry run the row of every game of
\* the batch carries the values of the batch, and every other row is the row
\* the table held before; after a dry run the table is what it was.
C39_UpsertKeepsOneRowPerGame ==
    /\ \A a, b \in m_table : a.game_id = b.game_id => a = b
    /\ (m_last.called /\ ~m_last.dry_run) =>
          /\ \A i \in 1..Len(m_last.rows) : m_last.rows[i] \in m_table
          /\ \A t \in m_last.before : t.game_id \notin BatchGames => t \in m_table
          /\ \A t \in m_table : t \in m_last.before \/ t.game_id \in BatchGames
    /\ (m_last.called /\ m_last.dry_run) => m_table = m_last.before

\* C39 witness: the table held games 1 and 2; a batch with other values for
\* game 1 alone has replaced the row of game 1 and left that of game 2.
C39_Witness ==
    /\ m_last.called /\ ~m_last.dry_run
    /\ Cardinality(m_last.before) = 2
    /\ BatchGames = {1}
    /\ m_last.rows[1] \notin m_last.before
    /\ m_last.rows[1] \in m_table
    /\ Cardinality(m_table) = 2


----------------------------------------------------------------------------
(* Claims about what a passing check_quality run implies, checked under    *)
(* SpecQuality.                                                            *)

\* the modern rows of the (game_id, season_type) group of `row`
ModernGroup(row) ==
    {r \in ModernRows : r.game_id = row.game_id /\ r.season_type = row.season_type}

\* C40: when check_quality.main has returned 0, every (game_id, season_type)
\* group of modern rows has exactly two rows: one home row, one away row and
\* no row whose side is unknown.
C40_PassImpliesTwoRowsPerGame ==
    (q_pc = "ran" /\ q_exit = 0) =>
        \A row \in ModernRows :
            /\ Cardinality(ModernGroup(row)) = 2
            /\ Cardinality({r \in ModernGroup(row) : r.is_home = "TRUE"}) = 1
            /\ Cardinality({r \in ModernGroup(row) : r.is_home = "FALSE"}) = 1
            /\ \A r \in ModernGroup(row) : r.is_home # SqlNull

\* C40 witness: main has passed; a game has its two modern rows and a third
\* row of the same game that is not modern.
C40_Witness ==
    /\ q_pc = "ran" /\ q_exit = 0
    /\ Cardinality(q_rows) = 3
    /\ Cardinality(ModernRows) = 2
    /\ \A r, t \in q_rows : r.game_id = t.game_id /\ r.season_type = t.season_type

====
